---- MODULE Spec2Model ----
(***************************************************************************)
(* KSeF invoice sync: the session authenticator and paginated retriever    *)
(* of ksef_client.py, the run modes, chunked backward walk, checkpoint     *)
(* file and deduplication of main.py, and the report rewrite of            *)
(* sheets_client.py.                                                       *)
(*                                                                         *)
(* Exceptions are modelled by their class: "SystemExit" (raised by         *)
(* sys.exit, a BaseException that no `except Exception` handler catches)   *)
(* and the ordinary exceptions, which every `except Exception` catches.    *)
(***************************************************************************)
EXTENDS Integers, Sequences, FiniteSets, TLC

VARIABLES
    pc,               \* position of the running process
    exc,              \* exception in flight / outcome of the last call ("none" when none)
    budget,           \* non-nominal gateway answers still allowed in this history
    last,             \* last gateway exchange: [call, http, ps]
    \* KsefClient
    session_token,    \* self.session_token
    bearer,           \* self.headers["Authorization"]
    reference_number, \* local of authenticate
    poll_i,           \* loop index of _check_session_status
    attempt,          \* loop index of _redeem_token
    nredeem,          \* redeem requests sent in this authentication
    redeem_retryable, \* every redeem answer so far was a retryable status
    \* frame of KsefClient.get_invoices
    served,           \* the records the gateway holds for the queried window, in its order
    page_size,
    page_offset,
    retry_auth,
    all_invoices,
    ret,              \* the caller get_invoices returns to
    offs,             \* offsets of the page requests sent by this call, in order
    slept,            \* seconds get_invoices has slept since the last query request
    \* the stores
    sheet,            \* the report: the rows of the worksheet, as get_all_values reads them
    progress,         \* content of PROGRESS_FILE, None when the file does not exist
    sheet_exists,     \* a spreadsheet of the configured name exists
    groups_metadata,  \* the row groups the last rewrite of the report asked for
    \* locals of main and of fetch_invoices_reverse_chunks
    mode,             \* choice: "A", "B", "C", "D"
    should_resume,
    existing_ids,
    invoices,
    new_rows,
    skipped_count,
    current_pointer,  \* a datetime: [t, aware]
    start_date,       \* a naive datetime: its day
    chunk_start,
    empty_chunk_streak,
    walk_invoices,    \* all_invoices of fetch_invoices_reverse_chunks
    end_date,         \* the end_date the walk was called with
    \* the operator and the history the properties read
    edits,            \* operator edits of annotation cells so far
    pre_sheet,        \* the report when the running process started
    pre_progress,     \* the checkpoint when the walk of the running process started
    walk_failed,      \* a chunk fetch of the running process raised
    last_ok_lo,       \* lower bound of the last chunk this walk fetched, NoCheckpoint when none
    ck_ids,           \* ids fetched in the checkpointed chunks of the full-history walk
    write_failed,     \* the last rewrite of the report did not complete
    writes,           \* the checkpoints save_progress wrote in the walk of this process
    \* processes of main that overlap on one report
    procs,            \* per process: [at, mode, existing_ids, new_rows, output_rows,
                      \*               groups_metadata]
    \* the checkpoint file used on its own
    last_checkpoint,  \* what the last load_progress() returned, None (NoCheckpoint) at first
    store_ops,        \* the save, clear and load operations applied to the file, in order
    \* the record-list extraction of get_invoices used on its own
    resp_json,        \* the answer's fields in order: <<[name, val]>>, val = [list, items]
    current_batch     \* the list taken from the answer

None == "None"

\* load_progress returns None: no checkpoint file
NoCheckpoint == -1

(***************************************************************************)
(* Exceptions                                                              *)
(***************************************************************************)
Ordinary == {"HTTPError", "ConnectionError", "Exception", "TypeError"}

\* `except Exception` catches every class but SystemExit
CaughtByExceptException(e) == e \in Ordinary

\* a gateway answer is its HTTP status; 0 stands for a transport error
\* requests.Response.raise_for_status
RaisesForStatus(st) == st >= 400 /\ st < 600

(***************************************************************************)
(* KsefClient._post: 401/403 stop the process, other HTTP errors raise     *)
(***************************************************************************)
PostOutcome(st) ==
    IF st = 0 THEN "ConnectionError"
    ELSE IF st \in {401, 403} THEN "SystemExit"
    ELSE IF RaisesForStatus(st) THEN "HTTPError"
    ELSE "none"

\* KsefClient._get: raise_for_status only
GetOutcome(st) ==
    IF st = 0 THEN "ConnectionError"
    ELSE IF RaisesForStatus(st) THEN "HTTPError"
    ELSE "none"

(***************************************************************************)
(* _check_session_status                                                   *)
(***************************************************************************)
\* a status loop that polls once more
max_retries_plus_one == 10 + 1

max_retries == 10

AuthorizedStatus == 300

\* a polling loop that takes any answer for the authorized status
PollAuthorized_AnyAnswer(st, ps) == TRUE

\* one iteration of the polling loop: TRUE when it returns True
PollAuthorized(st, ps) ==
    /\ GetOutcome(st) = "none"      \* any exception is caught and retried
    /\ ps = AuthorizedStatus

(***************************************************************************)
(* _redeem_token                                                           *)
(***************************************************************************)
\* a loop that runs one attempt too many
max_attempts_plus_one == 5 + 1

max_attempts == 5

RedeemRetryStatuses == {400, 480, 100, 429}

\* the exception a redeem answer that is neither 200 nor retryable ends in
RedeemRaise(st) ==
    IF st = 0 THEN "ConnectionError" ELSE "HTTPError"

\* what one iteration of the redeem loop does with the answer
RedeemAnswer(st) ==
    IF st = 0 THEN "raise"                       \* requests.post raises, not an HTTPError
    ELSE IF st = 200 THEN "token"
    ELSE IF st \in RedeemRetryStatuses THEN "retry"
    ELSE IF RaisesForStatus(st) THEN "raise"     \* re-raised by the HTTPError handler
    ELSE "next"                                  \* falls through to the next iteration

\* a client that stores the header it redeems with
HeaderAfterRedeem_InitialToken(ans, hasToken, initial, header) ==
    IF ans = "token" /\ hasToken THEN "access" ELSE initial

\* the Authorization header of the client after a redeem answer: step 7 of
\* authenticate sets it to the access token _redeem_token returned; the
\* initial token is sent in a header local to _redeem_token
HeaderAfterRedeem(ans, hasToken, initial, header) ==
    IF ans = "token" /\ hasToken THEN "access" ELSE header

(***************************************************************************)
(* The gateway: a non-nominal answer consumes one unit of the budget       *)
(***************************************************************************)
MaxAnomalies == 1

FetchMaxAnomalies == 2

AuthMaxAnomalies == 16

Spend(nominal) == IF nominal THEN budget ELSE budget - 1

CanAnswer(nominal) == nominal \/ budget > 0

Exchange(call, st, ps) == [call |-> call, http |-> st, ps |-> ps]

NoExchange == Exchange("none", 200, 0)

TokenInBody == 1

authVars == <<session_token, bearer, reference_number, poll_i, attempt, nredeem,
              redeem_retryable>>

gwVars == <<budget, last>>

fetchVars == <<served, page_size, page_offset, retry_auth, all_invoices, ret, offs,
               slept>>

storeVars == <<sheet, progress>>

mainVars == <<mode, should_resume, existing_ids, invoices, new_rows, skipped_count>>

walkVars == <<current_pointer, start_date, chunk_start, empty_chunk_streak,
              walk_invoices, end_date>>

histVars == <<edits, pre_sheet, pre_progress, walk_failed, last_ok_lo, ck_ids,
              write_failed, writes>>

concVars == <<procs>>

ckVars == <<last_checkpoint, store_ops>>

extractVars == <<resp_json, current_batch>>

reportVars == <<sheet_exists, groups_metadata>>

runVars == <<storeVars, mainVars, walkVars, histVars, concVars, ckVars,
             extractVars, reportVars>>

vars == <<pc, exc, gwVars, authVars, fetchVars, runVars>>

(***************************************************************************)
(* KsefClient.authenticate, one action per gateway request                 *)
(***************************************************************************)
\* a fresh KsefClient about to authenticate
ClientInit ==
    /\ session_token = None
    /\ bearer = None
    /\ reference_number = FALSE
    /\ poll_i = 0
    /\ attempt = 1
    /\ nredeem = 0
    /\ redeem_retryable = TRUE

Raise(e) ==
    /\ pc' = "auth_ret"
    /\ exc' = e

\* 1. POST /auth/challenge
AuthChallenge ==
    /\ pc = "challenge"
    /\ \E st \in {200, 403, 500} :
        /\ CanAnswer(st = 200)
        /\ budget' = Spend(st = 200)
        /\ last' = Exchange("challenge", st, 0)
        /\ IF PostOutcome(st) = "none"
              THEN pc' = "certs" /\ exc' = exc
              ELSE Raise(PostOutcome(st))
    /\ UNCHANGED <<authVars, fetchVars, runVars>>

\* 2. GET /security/public-key-certificates, pick the KsefTokenEncryption one
AuthCerts ==
    /\ pc = "certs"
    /\ \E st \in {200, 500}, found \in BOOLEAN :
        /\ CanAnswer(st = 200 /\ found)
        /\ budget' = Spend(st = 200 /\ found)
        /\ last' = Exchange("certs", st, 0)
        /\ IF GetOutcome(st) # "none" THEN Raise(GetOutcome(st))
           ELSE IF ~found THEN Raise("Exception")
           ELSE pc' = "init" /\ exc' = exc
    /\ UNCHANGED <<authVars, fetchVars, runVars>>

\* 4. POST /auth/ksef-token; session_token is reset, then read from the answer
AuthInit ==
    /\ pc = "init"
    /\ \E st \in {200, 403, 500}, hasToken \in BOOLEAN, hasRef \in BOOLEAN :
        /\ CanAnswer(st = 200 /\ hasToken /\ hasRef)
        /\ budget' = Spend(st = 200 /\ hasToken /\ hasRef)
        /\ last' = Exchange("init", st, 0)
        /\ IF PostOutcome(st) # "none"
              THEN /\ Raise(PostOutcome(st))
                   /\ UNCHANGED <<session_token, reference_number>>
           ELSE IF ~hasToken
              THEN /\ Raise("Exception")
                   /\ session_token' = None
                   /\ reference_number' = hasRef
           ELSE /\ session_token' = "initial"
                /\ reference_number' = hasRef
                /\ pc' = IF hasRef THEN "poll" ELSE "redeem"
                /\ exc' = exc
    /\ UNCHANGED <<bearer, poll_i, attempt, nredeem, redeem_retryable, fetchVars, runVars>>

\* 5. one GET of the status endpoint, bearer = initial token
AuthPoll ==
    /\ pc = "poll"
    /\ poll_i < max_retries
    /\ \E st \in {200, 403, 0}, ps \in {AuthorizedStatus, 315} :
        /\ st # 200 => ps = 315
        /\ CanAnswer(st = 200 /\ ps = AuthorizedStatus)
        /\ budget' = Spend(st = 200 /\ ps = AuthorizedStatus)
        /\ last' = Exchange("poll", st, IF st = 200 THEN ps ELSE 0)
        /\ IF PollAuthorized(st, ps)
              THEN pc' = "redeem" /\ exc' = exc /\ poll_i' = poll_i
           ELSE IF poll_i + 1 < max_retries
              THEN pc' = "poll" /\ exc' = exc /\ poll_i' = poll_i + 1
           ELSE Raise("Exception") /\ poll_i' = poll_i + 1
    /\ UNCHANGED <<session_token, bearer, reference_number, attempt, nredeem,
                   redeem_retryable, fetchVars, runVars>>

\* 6. one POST /auth/token/redeem, bearer = initial token; on 200 step 7 sets the
\*    Authorization header.  A 200 answer without accessToken.token raises
\*    (KeyError, or "Failed to redeem token").  The ps field of a redeem
\*    exchange is TokenInBody when the answer carries the token.
AuthRedeem ==
    /\ pc = "redeem"
    /\ attempt <= max_attempts
    /\ \E st \in {200, 400, 480, 100, 429, 401, 403, 500, 0}, hasToken \in BOOLEAN :
        /\ hasToken = (st = 200) \/ (st = 200 /\ ~hasToken)
        /\ CanAnswer(st = 200 /\ hasToken)
        /\ budget' = Spend(st = 200 /\ hasToken)
        /\ last' = Exchange("redeem", st, IF hasToken THEN TokenInBody ELSE 0)
        /\ nredeem' = nredeem + 1
        /\ redeem_retryable' = (redeem_retryable /\ st \in RedeemRetryStatuses)
        /\ bearer' = HeaderAfterRedeem(RedeemAnswer(st), hasToken, session_token,
                                       bearer)
        /\ CASE RedeemAnswer(st) = "token" /\ hasToken ->
                  /\ pc' = "auth_ret"
                  /\ exc' = "none"
                  /\ attempt' = attempt
             [] RedeemAnswer(st) = "token" /\ ~hasToken ->
                  /\ Raise("Exception")
                  /\ attempt' = attempt
             [] RedeemAnswer(st) = "raise" ->
                  /\ Raise(RedeemRaise(st))
                  /\ attempt' = attempt
             [] OTHER ->
                  /\ attempt' = attempt + 1
                  /\ IF attempt + 1 <= max_attempts
                        THEN pc' = "redeem" /\ exc' = exc
                        ELSE Raise("Exception")
    /\ UNCHANGED <<session_token, reference_number, poll_i, fetchVars, runVars>>

NextAuth ==
    \/ AuthChallenge
    \/ AuthCerts
    \/ AuthInit
    \/ AuthPoll
    \/ AuthRedeem


(***************************************************************************)
(* KsefClient.get_invoices                                                 *)
(***************************************************************************)
MaxPageSize == 250

ResultCeiling == 9900

Min(a, b) == IF a <= b THEN a ELSE b

\* "Production Limit enforcement"
EffectivePageSize(p) == IF p > MaxPageSize THEN MaxPageSize ELSE p

\* a page loop without the safeguard
AtCeiling_Never(off, p) == FALSE

\* the 10k safeguard at the top of the page loop
AtCeiling(off, p) == off * p >= ResultCeiling

\* the gateway's page `off` of a window: the next p records in its order
GatewayPage(recs, off, p) ==
    SubSeq(recs, off * p + 1, Min(Len(recs), (off + 1) * p))

\* what the inner request loop does with an answer
\* a 429 that raises like any other error status
QueryAnswer_429Ordinary(st, retry) ==
    IF st = 0 THEN "ConnectionError"
    ELSE IF st \in {401, 403} /\ retry THEN "retry"
    ELSE IF RaisesForStatus(st)
        THEN (IF st \in {401, 403} THEN "SystemExit" ELSE "HTTPError")
    ELSE "ok"

\* a request loop that retries every 401 and 403
QueryAnswer_RetryAlways(st, retry) ==
    IF st = 0 THEN "ConnectionError"
    ELSE IF st \in {401, 403} THEN "retry"
    ELSE IF st = 429 THEN "SystemExit"
    ELSE IF RaisesForStatus(st) THEN "HTTPError"
    ELSE "ok"

QueryAnswer(st, retry) ==
    IF st = 0 THEN "ConnectionError"             \* not an HTTPError: propagates
    ELSE IF st \in {401, 403} /\ retry THEN "retry"
    ELSE IF st = 429 THEN "SystemExit"
    ELSE IF RaisesForStatus(st)
        THEN (IF st \in {401, 403} THEN "SystemExit" ELSE "HTTPError")
    ELSE "ok"

\* the page is the last one: empty, or shorter than the page size
\* paging that stops on an empty page only
LastPage_EmptyOnly(count, p) == count = 0

LastPage(count, p) == count = 0 \/ count < p

\* a page loop without the throttle
ThrottleSleep_None == 1 - 1

\* 1. Mandatory Throttling: time.sleep(1.0) at the top of the page loop
ThrottleSleep == 1

\* time.sleep(5) before the retry of page 0
RetrySleep == 5

\* entry of get_invoices(start_iso, end_iso, page_size=p) on the window's
\* records, up to the first request: the first pass through the throttle
GetInvoicesCall(recs, p, caller) ==
    /\ slept' = slept + ThrottleSleep
    /\ served' = recs
    /\ page_size' = EffectivePageSize(p)
    /\ page_offset' = 0
    /\ retry_auth' = TRUE
    /\ all_invoices' = <<>>
    /\ ret' = caller
    /\ offs' = <<>>
    /\ pc' = "page"
    /\ exc' = "none"

\* one POST /invoices/query/metadata?pageSize=..&pageOffset=.. and what follows
\* it up to the next request
PageRequest ==
    /\ pc = "page"
    /\ \E st \in {200, 401, 403, 429, 500, 0} :
        LET ans == QueryAnswer(st, retry_auth)
            batch == GatewayPage(served, page_offset, page_size)
        IN
        /\ CanAnswer(st = 200)
        /\ budget' = Spend(st = 200)
        /\ last' = Exchange("query", st, 0)
        /\ offs' = Append(offs, page_offset)
        /\ CASE ans = "retry" ->
                  /\ retry_auth' = FALSE
                  /\ slept' = RetrySleep
                  /\ UNCHANGED <<pc, exc, page_offset, all_invoices>>
             [] ans = "ok" ->
                  /\ all_invoices' = all_invoices \o batch
                  /\ exc' = "none"
                  /\ IF LastPage(Len(batch), page_size)
                        THEN /\ pc' = "gi_ret"
                             /\ slept' = 0
                             /\ UNCHANGED <<page_offset, retry_auth>>
                        ELSE /\ page_offset' = page_offset + 1
                             /\ retry_auth' = FALSE
                             /\ slept' = ThrottleSleep
                             /\ pc' = IF AtCeiling(page_offset + 1, page_size)
                                         THEN "gi_ret" ELSE "page"
             [] OTHER ->
                  /\ pc' = "gi_ret"
                  /\ exc' = ans
                  /\ slept' = 0
                  /\ UNCHANGED <<page_offset, retry_auth, all_invoices>>
    /\ UNCHANGED <<served, page_size, ret, authVars, runVars>>

NextFetch ==
    \/ PageRequest


(***************************************************************************)
(* Data: raw records, report rows                                          *)
(*                                                                         *)
(* A raw record is [ref, num, day, df]: ksefReferenceNumber and ksefNumber *)
(* ("" when absent), the invoicing day the gateway files it under, and the *)
(* form of its date fields: "date" (YYYY-MM-DD), "time" (with a T part) or *)
(* "none" (neither invoicingDate nor acquisitionDate).  A report row is    *)
(* [id, date, notes]: column 0, column 3 and columns 7..10.  A date cell   *)
(* is the day its ISO string names, or NA for a string that is no date.    *)
(* The seller, document number, due date and amount columns take part in   *)
(* no decision and are left out.                                           *)
(***************************************************************************)
NA == 0

DateMax == 99999

DaysPerMonth == 30

EmptyNotes == <<"", "", "", "">>

HeaderId == "KSeF ID"

HeaderRow == [id |-> HeaderId, date |-> NA, notes |-> EmptyNotes]

\* f"--- {month_pl} {year} ---"
LabelText(ym) == "--- M" \o ToString(ym) \o " ---"

\* the row [header_text], read back padded with empty cells
LabelRow(ym) == [id |-> LabelText(ym), date |-> NA, notes |-> EmptyNotes]

Today == 100

\* the months of the days records are filed under (days 0..269)
Months == 0..8

\* row[0].startswith("---")
StartsWithDashes(s) == s \in {LabelText(m) : m \in Months}

Range(f) == {f[i] : i \in DOMAIN f}

\* invoice.get('ksefReferenceNumber') or invoice.get('ksefNumber')
KsefId(inv) == IF inv.ref # "" THEN inv.ref ELSE inv.num

\* inv_date: invoicingDate or acquisitionDate or 'N/A', cut at the 'T'
InvDate(inv) == IF inv.df = "none" THEN NA ELSE inv.day

\* row = [ksef_id, seller_name, inv_num, inv_date, payment_due, net, gross]
BuildRow(inv) == [id |-> KsefId(inv), date |-> InvDate(inv), notes |-> EmptyNotes]

(***************************************************************************)
(* main, step 7: process and deduplicate.  The result is                   *)
(* [rows, skipped, ids]: new_rows, skipped_count and existing_ids.         *)
(***************************************************************************)
\* a loop that counts a candidate without an id as a skipped duplicate
ProcessOne_CountsNoId(acc, inv) ==
    IF KsefId(inv) = "" \/ KsefId(inv) \in acc.ids
        THEN [acc EXCEPT !.skipped = @ + 1]
    ELSE [rows |-> Append(acc.rows, BuildRow(inv)),
          skipped |-> acc.skipped,
          ids |-> acc.ids \cup {KsefId(inv)}]

ProcessOne(acc, inv) ==
    IF KsefId(inv) = "" THEN acc
    ELSE IF KsefId(inv) \in acc.ids
        THEN [acc EXCEPT !.skipped = @ + 1]
    ELSE [rows |-> Append(acc.rows, BuildRow(inv)),
          skipped |-> acc.skipped,
          ids |-> acc.ids \cup {KsefId(inv)}]

RECURSIVE ProcessFrom(_, _, _)
ProcessFrom(invs, i, acc) ==
    IF i > Len(invs) THEN acc
    ELSE ProcessFrom(invs, i + 1, ProcessOne(acc, invs[i]))

Process(invs, ids) ==
    ProcessFrom(invs, 1, [rows |-> <<>>, skipped |-> 0, ids |-> ids])

(***************************************************************************)
(* SheetsClient                                                            *)
(***************************************************************************)
\* clear_sheet: clear, then append the header row
ClearedSheet == <<HeaderRow>>

\* get_existing_ids: column A without the header cell
GetExistingIds(sh) ==
    IF sh # <<>> /\ sh[1].id = HeaderId
        THEN {sh[i].id : i \in 2..Len(sh)}
        ELSE {sh[i].id : i \in 1..Len(sh)}

\* sync_formatted_data, existing_full_rows: the data rows read back
IsExistingFullRow(row) ==
    /\ row.id # ""
    /\ ~StartsWithDashes(row.id)

ExistingFullRows(sh) ==
    LET start_idx == IF sh # <<>> /\ sh[1].id = HeaderId THEN 2 ELSE 1
    IN SelectSeq(SubSeq(sh, start_idx, Len(sh)), IsExistingFullRow)

\* the merge: existing rows, then each new row whose id is not yet there
RECURSIVE MergeFrom(_, _, _, _)
MergeFrom(rows, i, dataset, idset) ==
    IF i > Len(rows) THEN dataset
    ELSE IF rows[i].id \in idset
        THEN MergeFrom(rows, i + 1, dataset, idset)
        ELSE MergeFrom(rows, i + 1, Append(dataset, rows[i]),
                       idset \cup {rows[i].id})

\* a merge that appends the accepted rows without looking at the ids
FinalDataset_Append(existing, rows) == existing \o rows

FinalDataset(existing, rows) ==
    MergeFrom(rows, 1, existing, {existing[i].id : i \in 1..Len(existing)})

\* parse_date: date.max for an empty or unparseable cell
ParseDate(cell) == IF cell = NA THEN DateMax ELSE cell

\* get_month_key: None (here -1) for date.max, else (year, month)
NoKey == -1

GetMonthKey(row) ==
    IF ParseDate(row.date) = DateMax THEN NoKey
    ELSE ParseDate(row.date) \div DaysPerMonth

\* a sort that puts every row in front of the rows sorted so far
InsertByDate_Front(sorted, row) == <<row>> \o sorted

\* list.sort(key=parse_date): stable, ascending
InsertByDate(sorted, row) ==
    LET c == Cardinality({i \in 1..Len(sorted) :
                            ParseDate(sorted[i].date) <= ParseDate(row.date)})
    IN SubSeq(sorted, 1, c) \o <<row>> \o SubSeq(sorted, c + 1, Len(sorted))

RECURSIVE SortFrom(_, _, _)
SortFrom(rows, i, sorted) ==
    IF i > Len(rows) THEN sorted
    ELSE SortFrom(rows, i + 1, InsertByDate(sorted, rows[i]))

\* a rewrite that keeps the rows in the order of the merge
SortByDate_Unsorted(rows) == rows

SortByDate(rows) == SortFrom(rows, 1, <<>>)

\* step 4: groupby over the sorted rows; a group without a key is skipped
RECURSIVE EmitFrom(_, _, _, _)
EmitFrom(rows, i, prev, out) ==
    IF i > Len(rows) THEN out
    ELSE LET key == GetMonthKey(rows[i])
         IN IF key = NoKey THEN EmitFrom(rows, i + 1, key, out)
            ELSE IF key # prev
                THEN EmitFrom(rows, i + 1, key,
                              out \o <<LabelRow(key), rows[i]>>)
            ELSE EmitFrom(rows, i + 1, key, Append(out, rows[i]))

OutputRows(dataset) == EmitFrom(dataset, 1, NoKey, <<HeaderRow>>)

\* today = datetime.date.today(); current_real_month_key
current_real_month_key == Today \div DaysPerMonth

\* a rewrite that marks every group collapsed
Collapsed_Always(key) == TRUE

\* collapsed = not is_current_month
Collapsed(key) == key # current_real_month_key

\* a range that starts on the label row
GroupStart_OnLabel(header_row_idx) == header_row_idx

\* g_start = header_row_idx + 1: the row under the label, 0-based
GroupStart(header_row_idx) == header_row_idx + 1

\* step 4, groups_metadata: one range per emitted group; idx is
\* current_write_idx, the 0-based index of the next row of output_rows
RECURSIVE GroupsFrom(_, _, _, _, _)
GroupsFrom(rows, i, prev, idx, out) ==
    IF i > Len(rows) THEN out
    ELSE LET key == GetMonthKey(rows[i])
         IN IF key = NoKey THEN GroupsFrom(rows, i + 1, key, idx, out)
            ELSE IF key # prev
                THEN GroupsFrom(rows, i + 1, key, idx + 2,
                                Append(out, [startIndex |-> GroupStart(idx),
                                             endIndex |-> GroupStart(idx) + 1,
                                             collapsed |-> Collapsed(key)]))
            ELSE GroupsFrom(rows, i + 1, key, idx + 1,
                            [out EXCEPT ![Len(out)].endIndex = @ + 1])

GroupsMetadata(dataset) == GroupsFrom(dataset, 1, NoKey, 1, <<>>)

\* the groups sync_formatted_data(new_rows) computes over the report sh
SyncGroups(sh, rows) ==
    GroupsMetadata(SortByDate(FinalDataset(ExistingFullRows(sh), rows)))

\* the rows sync_formatted_data(new_rows) writes over the report sh
SyncOutput(sh, rows) ==
    OutputRows(SortByDate(FinalDataset(ExistingFullRows(sh), rows)))

\* how a call of sync_formatted_data ends: the update is done, or the read of
\* step 1 or the clear raised, or the clear was done and the update raised
SyncOutcomes == {"written", "untouched", "cleared"}

\* step 5: clear, then update; a failed update leaves the cleared sheet
WrittenSheet(sh, rows, how) ==
    CASE how = "written" -> SyncOutput(sh, rows)
      [] how = "untouched" -> sh
      [] how = "cleared" -> <<>>

\* the groups asked for after the call: the batch update follows the update
\* of the rows, so a call that raised before sent none
SentGroups(cur, sh, rows, how) ==
    IF how = "written" THEN SyncGroups(sh, rows) ELSE cur

\* get_or_create_sheet: the sheet opened, or created with the header row
GetOrCreateSheet(exists, sh) == IF exists THEN sh ELSE <<HeaderRow>>

\* the data rows of a report
DataRows(sh) == ExistingFullRows(sh)

DataIds(sh) == {DataRows(sh)[i].id : i \in 1..Len(DataRows(sh))}

(***************************************************************************)
(* The gateway's invoices and the windows of the run modes                 *)
(***************************************************************************)
GatewayRecords == <<
    [ref |-> "k1", num |-> "",   day |-> 95, df |-> "date"],
    [ref |-> "",   num |-> "k2", day |-> 70, df |-> "time"],
    [ref |-> "k3", num |-> "",   day |-> 50, df |-> "none"],
    [ref |-> "",   num |-> "",   day |-> 96, df |-> "date"],
    [ref |-> "k5", num |-> "k9", day |-> 20, df |-> "date"],
    [ref |-> "k6", num |-> "",   day |-> 230, df |-> "date"] >>

\* the records filed between two days, the first of them twice when the
\* gateway repeats a record
WindowRecords(lo, hi, dup) ==
    LET recs == SelectSeq(GatewayRecords, LAMBDA r : lo <= r.day /\ r.day <= hi)
    IN IF dup /\ recs # <<>> THEN Append(recs, recs[1]) ELSE recs

absolute_start == 0

chunk_days == 30

QuarterDays == 90

WeekDays == 7

Naive(t) == [t |-> t, aware |-> FALSE]

\* datetime.fromisoformat of a checkpoint written by save_progress
\* ("...+00:00"): an aware datetime
FromIsoformat(cp) == [t |-> cp, aware |-> TRUE]

\* comparing a naive and an aware datetime raises TypeError
ComparisonRaises(a, b) == a.aware # b.aware

Max(a, b) == IF a >= b THEN a ELSE b

\* a chunk lower bound that is not clamped to start_date
ChunkStart_NoClamp(ptr, start) == ptr - chunk_days

\* chunk lower bound: current_pointer - chunk_days, clamped to start_date
ChunkStart(ptr, start) == Max(ptr - chunk_days, start)

\* a query window without the overlap on its upper edge
QueryEnd_NoOverlap(ptr) == ptr

\* query_end = current_pointer + timedelta(days=1)
QueryEnd(ptr) == ptr + 1

\* save_progress sits inside the try, after get_invoices returned
\* a checkpoint written whether or not the chunk was fetched
CheckpointAfterChunk_Always(e, cur, lo) == lo

CheckpointAfterChunk(e, cur, lo) == IF e = "none" THEN lo ELSE cur

\* a save that keeps what the file already holds
SavedText_KeepFirst(cur, date_iso) ==
    IF cur = NoCheckpoint THEN date_iso ELSE cur

\* save_progress: open(PROGRESS_FILE, "w") truncates, then the text is written
SavedText(cur, date_iso) == date_iso

\* os.remove(PROGRESS_FILE) when the file exists
RemovedFile(cur) == NoCheckpoint

\* load_progress: the text of the file, None when there is no file; the file
\* is only read
LoadProgress(file) == file

(***************************************************************************)
(* main: one process per run                                               *)
(***************************************************************************)
MaxEdits == 1

\* sys.exit(1), or a SystemExit reaching the top of the process
ExitProcess ==
    /\ pc' = "exited"
    /\ exc' = "SystemExit"

\* an exception leaves fetch_invoices_reverse_chunks: mode A's handler prints
\* and passes, leaving invoices = []; mode B's handler calls sys.exit(1);
\* neither catches SystemExit
WalkRaises(e) ==
    IF CaughtByExceptException(e) /\ mode = "A"
        THEN /\ pc' = "process"
             /\ exc' = "none"
             /\ invoices' = <<>>
        ELSE /\ ExitProcess
             /\ invoices' = invoices

\* the top of the while loop with pointer ptr and the invoices gathered so far
WalkLoop(ptr, gathered) ==
    IF ComparisonRaises(ptr, Naive(start_date))
        THEN /\ WalkRaises("TypeError")
             /\ UNCHANGED <<fetchVars, budget, chunk_start>>
    ELSE IF ptr.t > start_date
        THEN \E dup \in BOOLEAN :
                /\ CanAnswer(~dup)
                /\ budget' = Spend(~dup)
                /\ chunk_start' = ChunkStart(ptr.t, start_date)
                /\ GetInvoicesCall(
                       WindowRecords(ChunkStart(ptr.t, start_date),
                                     QueryEnd(ptr.t), dup),
                       MaxPageSize, "walk")
                /\ invoices' = invoices
    ELSE /\ pc' = "process"
         /\ exc' = "none"
         /\ invoices' = gathered
         /\ UNCHANGED <<fetchVars, budget, chunk_start>>

\* steps 1-4 of main: mode choice, sheet opened, the mode's preparation up to
\* ksef.authenticate()
StartRun ==
    /\ pc \in {"idle", "exited"}
    /\ \E m \in {"A", "B", "C", "D"}, res \in {"Y", "N", "EOF"}, readOk \in BOOLEAN :
        LET resume == m = "A" /\ progress # NoCheckpoint /\ res = "Y"
            fresh == m = "A" /\ ~resume
            reads == m \in {"B", "C"} \/ resume
        IN
        /\ (m # "A" \/ progress = NoCheckpoint) => res = "N"
        /\ ~reads => readOk
        /\ mode' = m
        /\ should_resume' = resume
        /\ sheet_exists' = TRUE
        /\ sheet' = IF fresh THEN ClearedSheet
                              ELSE GetOrCreateSheet(sheet_exists, sheet)
        /\ progress' = IF fresh THEN NoCheckpoint ELSE progress
        /\ existing_ids' =
              IF reads /\ readOk
                  THEN GetExistingIds(GetOrCreateSheet(sheet_exists, sheet))
                  ELSE {}
        /\ current_pointer' = IF resume THEN FromIsoformat(progress) ELSE Naive(Today)
        /\ end_date' = IF resume THEN FromIsoformat(progress) ELSE Naive(Today)
        /\ start_date' = IF m = "B" THEN Today - QuarterDays ELSE absolute_start
        /\ pre_sheet' = sheet
        /\ pre_progress' = IF fresh THEN NoCheckpoint ELSE progress
        /\ ck_ids' = IF fresh THEN {} ELSE ck_ids
        /\ last_checkpoint' = IF m = "A" THEN LoadProgress(progress)
                                         ELSE NoCheckpoint
    /\ invoices' = <<>>
    /\ new_rows' = <<>>
    /\ skipped_count' = 0
    /\ chunk_start' = 0
    /\ empty_chunk_streak' = 0
    /\ walk_invoices' = <<>>
    /\ walk_failed' = FALSE
    /\ last_ok_lo' = NoCheckpoint
    /\ write_failed' = FALSE
    /\ writes' = <<>>
    /\ pc' = "challenge"
    /\ exc' = "none"
    /\ last' = NoExchange
    /\ session_token' = None
    /\ bearer' = None
    /\ reference_number' = FALSE
    /\ poll_i' = 0
    /\ attempt' = 1
    /\ nredeem' = 0
    /\ redeem_retryable' = TRUE
    /\ served' = <<>>
    /\ page_size' = MaxPageSize
    /\ page_offset' = 0
    /\ retry_auth' = FALSE
    /\ all_invoices' = <<>>
    /\ ret' = "none"
    /\ offs' = <<>>
    /\ slept' = 0
    /\ UNCHANGED <<budget, edits, concVars, store_ops, extractVars,
                   groups_metadata>>

\* a main that goes on after an ordinary exception of authenticate
AuthRaised_FatalOnly(e) == e = "SystemExit"

\* try: ksef.authenticate() / except Exception: the handler is entered for
\* every ordinary exception, and SystemExit passes it by
AuthRaised(e) == e # "none"

\* ksef.authenticate() returned or raised: every handler calls sys.exit(1);
\* otherwise the mode's fetch starts
MainAfterAuth ==
    /\ pc = "auth_ret"
    /\ mode \in {"A", "B", "C", "D"}
    /\ IF AuthRaised(exc)
          THEN /\ ExitProcess
               /\ UNCHANGED <<fetchVars, budget, chunk_start, invoices>>
       ELSE IF mode \in {"A", "B"}
          THEN WalkLoop(current_pointer, <<>>)
       ELSE \E dup \in BOOLEAN :
               /\ CanAnswer(~dup)
               /\ budget' = Spend(~dup)
               /\ GetInvoicesCall(WindowRecords(Today - WeekDays, Today, dup),
                                  IF mode = "C" THEN 1000 ELSE 100, "single")
               /\ UNCHANGED <<chunk_start, invoices>>
    /\ UNCHANGED <<last, authVars, storeVars, mode, should_resume,
                   existing_ids, new_rows, skipped_count, current_pointer,
                   start_date, empty_chunk_streak, walk_invoices, end_date,
                   histVars>>
    /\ UNCHANGED <<concVars, ckVars, extractVars, reportVars>>

\* a breaker that trips after two empty chunks
StrikeLimit_Two == 3 - 1

\* "3-Strike Empty Rule": if empty_chunk_streak >= 3
StrikeLimit == 3

IdsOf(recs) == {KsefId(recs[i]) : i \in 1..Len(recs)} \ {""}

\* get_invoices returned to, or raised in, the try block of the chunk loop
WalkAfterChunk ==
    /\ pc = "gi_ret"
    /\ ret = "walk"
    /\ progress' = CheckpointAfterChunk(exc, progress, chunk_start)
    /\ IF exc = "none"
          THEN LET streak == IF all_invoices = <<>>
                                THEN empty_chunk_streak + 1 ELSE 0
                   gathered == walk_invoices \o all_invoices
               IN
               /\ walk_invoices' = gathered
               /\ last_ok_lo' = chunk_start
               /\ writes' = Append(writes, chunk_start)
               /\ ck_ids' = IF mode = "A" THEN ck_ids \cup IdsOf(all_invoices)
                                          ELSE ck_ids
               /\ walk_failed' = walk_failed
               /\ \E choice \in {"Y", "N", "EOF"} :
                    /\ streak < StrikeLimit => choice = "Y"
                    /\ IF streak >= StrikeLimit /\ choice # "Y"
                          THEN /\ empty_chunk_streak' = streak
                               /\ current_pointer' = current_pointer
                               /\ pc' = "process"
                               /\ exc' = "none"
                               /\ invoices' = gathered
                               /\ UNCHANGED <<fetchVars, budget, chunk_start>>
                          ELSE /\ empty_chunk_streak' =
                                      IF streak >= StrikeLimit THEN 0 ELSE streak
                               /\ current_pointer' =
                                      [current_pointer EXCEPT !.t = chunk_start]
                               /\ WalkLoop([current_pointer EXCEPT !.t = chunk_start],
                                           gathered)
          ELSE /\ walk_failed' = TRUE
               /\ WalkRaises(exc)
               /\ UNCHANGED <<fetchVars, budget, chunk_start, walk_invoices,
                              last_ok_lo, ck_ids, empty_chunk_streak, writes,
                              current_pointer>>
    /\ UNCHANGED <<last, authVars, sheet, mode, should_resume, existing_ids,
                   new_rows, skipped_count, start_date, end_date, edits, pre_sheet,
                   pre_progress, write_failed>>
    /\ UNCHANGED <<concVars, ckVars, extractVars, reportVars>>

\* get_invoices returned to, or raised in, mode C or mode D
SingleAfterFetch ==
    /\ pc = "gi_ret"
    /\ ret = "single"
    /\ IF exc # "none"
          THEN ExitProcess /\ invoices' = invoices
       ELSE IF mode = "D"
          THEN pc' = "idle" /\ exc' = "none" /\ invoices' = all_invoices
       ELSE pc' = "process" /\ exc' = "none" /\ invoices' = all_invoices
    /\ UNCHANGED <<gwVars, authVars, fetchVars, storeVars, mode, should_resume,
                   existing_ids, new_rows, skipped_count, walkVars, histVars>>
    /\ UNCHANGED <<concVars, ckVars, extractVars, reportVars>>

\* step 7: the deduplication loop; without new rows the run ends here
ProcessInvoices ==
    /\ pc = "process"
    /\ LET r == Process(invoices, existing_ids)
       IN /\ new_rows' = r.rows
          /\ skipped_count' = r.skipped
          /\ existing_ids' = r.ids
          /\ pc' = IF r.rows = <<>> THEN "idle" ELSE "sync"
    /\ UNCHANGED <<exc, gwVars, authVars, fetchVars, storeVars, mode, should_resume,
                   invoices, walkVars, histVars>>
    /\ UNCHANGED <<concVars, ckVars, extractVars, reportVars>>

\* step 8: sheets.sync_formatted_data(new_rows); main catches what it raises
SyncFormattedData ==
    /\ pc = "sync"
    /\ \E how \in SyncOutcomes :
        /\ sheet' = WrittenSheet(sheet, new_rows, how)
        /\ groups_metadata' = SentGroups(groups_metadata, sheet, new_rows, how)
        /\ write_failed' = (how # "written")
    /\ pc' = "idle"
    /\ UNCHANGED <<exc, gwVars, authVars, fetchVars, progress, mainVars, walkVars,
                   edits, pre_sheet, pre_progress, walk_failed, last_ok_lo, ck_ids,
                   writes>>
    /\ UNCHANGED <<concVars, ckVars, extractVars, sheet_exists>>

\* the annotation cells the operator fills: payment note and free-text note
EditedColumns == {2, 4}

\* the operator fills an annotation cell of a data row between two runs
EditNote ==
    /\ pc \in {"idle", "exited"}
    /\ edits < MaxEdits
    /\ \E i \in 1..Len(sheet), c \in EditedColumns :
        /\ sheet[i].id # HeaderId
        /\ IsExistingFullRow(sheet[i])
        /\ sheet' = [sheet EXCEPT ![i].notes[c] = "Paid"]
    /\ edits' = edits + 1
    /\ UNCHANGED <<pc, exc, gwVars, authVars, fetchVars, progress, mainVars,
                   walkVars, pre_sheet, pre_progress, walk_failed, last_ok_lo,
                   ck_ids, write_failed, writes>>
    /\ UNCHANGED <<concVars, ckVars, extractVars, reportVars>>

Next ==
    \/ StartRun
    \/ AuthChallenge
    \/ AuthCerts
    \/ AuthInit
    \/ AuthPoll
    \/ AuthRedeem
    \/ MainAfterAuth
    \/ PageRequest
    \/ WalkAfterChunk
    \/ SingleAfterFetch
    \/ ProcessInvoices
    \/ SyncFormattedData
    \/ EditNote

(***************************************************************************)
(* The merge alone: main's deduplication and the report rewrite applied    *)
(* twice to the same raw records, from a report an earlier sync wrote      *)
(***************************************************************************)
MaxRaw == 2

\* rows an earlier sync may have written, the first with an operator's note
EarlierRows == <<
    [id |-> "k1", date |-> 95, notes |-> <<"", "Paid", "", "">>],
    [id |-> "k5", date |-> 20, notes |-> EmptyNotes],
    [id |-> "k7", date |-> 61, notes |-> EmptyNotes],
    [id |-> "k8", date |-> 75, notes |-> EmptyNotes] >>

RawLists ==
    UNION {[1..n -> Range(GatewayRecords)] : n \in 0..MaxRaw}

\* modes B and C without the fetch: get_existing_ids, step 7, step 8
MergeSync ==
    /\ pc \in {"merge1", "merge2"}
    /\ LET r == Process(invoices, GetExistingIds(sheet))
       IN /\ new_rows' = r.rows
          /\ skipped_count' = r.skipped
          /\ existing_ids' = r.ids
          /\ \E how \in SyncOutcomes :
               /\ r.rows = <<>> => how = "written"
               /\ sheet' = IF r.rows = <<>> THEN sheet
                           ELSE WrittenSheet(sheet, r.rows, how)
               /\ groups_metadata' =
                     IF r.rows = <<>> THEN groups_metadata
                     ELSE SentGroups(groups_metadata, sheet, r.rows, how)
               /\ write_failed' = (write_failed \/ how # "written")
    /\ pre_sheet' = sheet
    /\ pc' = IF pc = "merge1" THEN "merge2" ELSE "merged"
    /\ UNCHANGED <<exc, gwVars, authVars, fetchVars, progress, mode, should_resume,
                   invoices, walkVars, edits, pre_progress, walk_failed,
                   last_ok_lo, ck_ids, writes>>
    /\ UNCHANGED <<concVars, ckVars, extractVars, sheet_exists>>

\* the summary, "New Synced": len(new_rows), printed whether or not step 8
\* raised
NewSynced == Len(new_rows)

NextMerge ==
    \/ MergeSync

(***************************************************************************)
(* The chunked walk alone: fetch_invoices_reverse_chunks called on an      *)
(* authenticated client for a start date and an end date                   *)
(***************************************************************************)
MaxWalkEnd == 240

WalkMaxAnomalies == 1

\* the start dates the walk is tried with
WalkStarts == {0, 10, 60}

\* invoices = fetch_invoices_reverse_chunks(ksef, start, end, chunk_days=30)
WalkCall ==
    /\ pc = "walk"
    /\ WalkLoop(current_pointer, <<>>)
    /\ UNCHANGED <<last, authVars, storeVars, mode, should_resume,
                   existing_ids, new_rows, skipped_count, current_pointer,
                   start_date, empty_chunk_streak, walk_invoices, end_date,
                   histVars>>
    /\ UNCHANGED <<concVars, ckVars, extractVars, reportVars>>

NextWalk ==
    \/ WalkCall
    \/ PageRequest
    \/ WalkAfterChunk

(***************************************************************************)
(* Two processes of main on one report: modes B and C, each with its own   *)
(* locals; the gateway answers every request nominally.  Nothing in main   *)
(* or in SheetsClient takes a lock, so the reads and writes of the report  *)
(* interleave freely.                                                      *)
(***************************************************************************)
Procs == {1, 2}

\* a process that has not started
IdleProc ==
    [at |-> "idle", mode |-> "none", existing_ids |-> {},
     new_rows |-> <<>>, output_rows |-> <<>>, groups_metadata |-> <<>>]

NoProcs == [p \in Procs |-> IdleProc]

\* fetch_invoices_reverse_chunks when no chunk fails: the chunks' records,
\* newest chunk first
RECURSIVE WalkFetched(_, _, _)
WalkFetched(ptr, start, gathered) ==
    IF ptr > start
        THEN WalkFetched(ChunkStart(ptr, start), start,
                         gathered \o WindowRecords(ChunkStart(ptr, start),
                                                   QueryEnd(ptr), FALSE))
        ELSE gathered

\* the invoices main holds after the fetch of mode B or mode C
ConcFetched(m) ==
    IF m = "B" THEN WalkFetched(Today, Today - QuarterDays, <<>>)
    ELSE WindowRecords(Today - WeekDays, Today, FALSE)

\* the reports an earlier sync may have left
ConcReports ==
    {OutputRows(SortByDate(SubSeq(EarlierRows, k, Len(EarlierRows)))) :
        k \in 1..(Len(EarlierRows) + 1)}

concUnchanged ==
    UNCHANGED <<pc, exc, gwVars, authVars, fetchVars, progress, mainVars,
                walkVars, histVars, ckVars, extractVars, sheet_exists>>

\* mode choice and existing_ids = sheets.get_existing_ids()
ConcStart ==
    /\ \E p \in Procs, m \in {"B", "C"} :
         /\ procs[p].at = "idle"
         /\ procs' = [procs EXCEPT ![p] =
                         [IdleProc EXCEPT !.at = "fetch", !.mode = m,
                                          !.existing_ids = GetExistingIds(sheet)]]
    /\ UNCHANGED <<sheet, groups_metadata>>
    /\ concUnchanged

\* authenticate, the mode's fetch and step 7; without new rows main ends
ConcFetch ==
    /\ \E p \in Procs :
         /\ procs[p].at = "fetch"
         /\ LET r == Process(ConcFetched(procs[p].mode), procs[p].existing_ids)
            IN procs' = [procs EXCEPT
                            ![p].new_rows = r.rows,
                            ![p].existing_ids = r.ids,
                            ![p].at = IF r.rows = <<>> THEN "done" ELSE "read"]
    /\ UNCHANGED <<sheet, groups_metadata>>
    /\ concUnchanged

\* sync_formatted_data, steps 1-4: get_all_values and the merged layout
ConcReadAll ==
    /\ \E p \in Procs :
         /\ procs[p].at = "read"
         /\ procs' = [procs EXCEPT
                         ![p].output_rows = SyncOutput(sheet, procs[p].new_rows),
                         ![p].groups_metadata =
                             SyncGroups(sheet, procs[p].new_rows),
                         ![p].at = "clear"]
    /\ UNCHANGED <<sheet, groups_metadata>>
    /\ concUnchanged

\* sync_formatted_data, step 5: self.sheet.clear()
ConcClear ==
    /\ \E p \in Procs :
         /\ procs[p].at = "clear"
         /\ procs' = [procs EXCEPT ![p].at = "update"]
    /\ sheet' = <<>>
    /\ UNCHANGED groups_metadata
    /\ concUnchanged

\* sync_formatted_data, step 5: self.sheet.update("A1", output_rows)
ConcUpdate ==
    /\ \E p \in Procs :
         /\ procs[p].at = "update"
         /\ sheet' = procs[p].output_rows
         /\ groups_metadata' = procs[p].groups_metadata
         /\ procs' = [procs EXCEPT ![p].at = "done"]
    /\ concUnchanged

NextConc ==
    \/ ConcStart
    \/ ConcFetch
    \/ ConcReadAll
    \/ ConcClear
    \/ ConcUpdate

(***************************************************************************)
(* The checkpoint file alone: save_progress, load_progress and the removal *)
(* of the file, applied in any order                                       *)
(***************************************************************************)
MaxStoreOps == 3

\* the chunk lower bounds a walk back from Today saves
SavedDays == {70, 40, 10, 0}

StoreOp(op, v) == [op |-> op, v |-> v]

\* save_progress(date_iso)
SaveProgress ==
    /\ pc = "store"
    /\ Len(store_ops) < MaxStoreOps
    /\ \E d \in SavedDays :
         /\ progress' = SavedText(progress, d)
         /\ store_ops' = Append(store_ops, StoreOp("save", d))
    /\ UNCHANGED <<pc, exc, gwVars, authVars, fetchVars, sheet, mainVars,
                   walkVars, histVars, concVars, last_checkpoint, extractVars,
                   reportVars>>

\* if os.path.exists(PROGRESS_FILE): os.remove(PROGRESS_FILE)
RemoveProgress ==
    /\ pc = "store"
    /\ Len(store_ops) < MaxStoreOps
    /\ progress' = RemovedFile(progress)
    /\ store_ops' = Append(store_ops, StoreOp("clear", NoCheckpoint))
    /\ UNCHANGED <<pc, exc, gwVars, authVars, fetchVars, sheet, mainVars,
                   walkVars, histVars, concVars, last_checkpoint, extractVars,
                   reportVars>>

\* last_checkpoint = load_progress()
LoadProgressCall ==
    /\ pc = "store"
    /\ Len(store_ops) < MaxStoreOps
    /\ last_checkpoint' = LoadProgress(progress)
    /\ store_ops' = Append(store_ops, StoreOp("load", NoCheckpoint))
    /\ UNCHANGED <<pc, exc, gwVars, authVars, fetchVars, storeVars, mainVars,
                   walkVars, histVars, concVars, extractVars, reportVars>>

NextStore ==
    \/ SaveProgress
    \/ RemoveProgress
    \/ LoadProgressCall

(***************************************************************************)
(* get_invoices, "Extract Invoices": the record list taken from one answer *)
(* A JSON value is [list, items]: a list with its items, or a value that   *)
(* is no list (null), with no items.                                       *)
(***************************************************************************)
MaxFields == 3

FieldNames == {"invoiceHeaderList", "invoiceMetadataList", "items", "extra",
               "hasMore"}

JsonValues ==
    {[list |-> TRUE, items |-> <<>>],
     [list |-> TRUE, items |-> <<1>>],
     [list |-> TRUE, items |-> <<2, 3>>],
     [list |-> FALSE, items |-> <<>>]}

\* the answers tried: up to MaxFields fields with distinct names
Responses ==
    {r \in UNION {[1..n -> [name : FieldNames, val : JsonValues]] :
                     n \in 0..MaxFields} :
        \A i, j \in 1..Len(r) : i # j => r[i].name # r[j].name}

\* 'name' in resp_json
HasField(resp, name) == \E i \in 1..Len(resp) : resp[i].name = name

\* resp_json[name]
FieldValue(resp, name) ==
    resp[CHOOSE i \in 1..Len(resp) : resp[i].name = name].val

\* isinstance(value, list) and len(value) > 0
IsNonEmptyList(v) == v.list /\ v.items # <<>>

\* the for loop over resp_json.items(): the first field that passes the test
FirstListValue(resp) ==
    LET hits == {i \in 1..Len(resp) : IsNonEmptyList(resp[i].val)}
    IN IF hits = {} THEN <<>>
       ELSE resp[CHOOSE i \in hits : \A j \in hits : i <= j].val.items

\* an extraction that looks for invoiceMetadataList first
ExtractBatch_MetadataFirst(resp) ==
    IF HasField(resp, "invoiceMetadataList")
        THEN FieldValue(resp, "invoiceMetadataList").items
    ELSE IF HasField(resp, "invoiceHeaderList")
        THEN FieldValue(resp, "invoiceHeaderList").items
    ELSE FirstListValue(resp)

ExtractBatch(resp) ==
    IF HasField(resp, "invoiceHeaderList")
        THEN FieldValue(resp, "invoiceHeaderList").items
    ELSE IF HasField(resp, "invoiceMetadataList")
        THEN FieldValue(resp, "invoiceMetadataList").items
    ELSE FirstListValue(resp)

\* the extraction and the test that follows it: an empty batch ends the
\* page loop, any other batch is counted
ExtractRecords ==
    /\ pc = "extract"
    /\ current_batch' = ExtractBatch(resp_json)
    /\ pc' = IF ExtractBatch(resp_json) = <<>> THEN "gi_ret" ELSE "count"
    /\ UNCHANGED <<exc, gwVars, authVars, fetchVars, storeVars, mainVars,
                   walkVars, histVars, concVars, ckVars, resp_json, reportVars>>

NextExtract ==
    \/ ExtractRecords

(***************************************************************************)
(* Properties                                                              *)
(***************************************************************************)
\* a gateway request is sent in this step
RequestSent ==
    \/ AuthChallenge
    \/ AuthCerts
    \/ AuthInit
    \/ AuthPoll
    \/ AuthRedeem
    \/ PageRequest

\* the rows of a report that are neither the header nor a group label
ReportDataRows(sh) ==
    SelectSeq(sh, LAMBDA r : r.id # HeaderId /\ r.id # "" /\ ~StartsWithDashes(r.id))

ReportIds(sh) ==
    LET data == ReportDataRows(sh)
    IN {data[i].id : i \in 1..Len(data)}

HasDuplicateId(recs) ==
    \E i, j \in 1..Len(recs) :
        i # j /\ KsefId(recs[i]) # "" /\ KsefId(recs[i]) = KsefId(recs[j])

\* C1: starting from the empty report, after any sequence of runs of any modes
\* no two data rows of the stored report carry the same record id, also when
\* a fetch returned a record twice
C1_UniqueRecordIds ==
    LET data == ReportDataRows(sheet)
    IN \A i, j \in 1..Len(data) : data[i].id = data[j].id => i = j

\* a run that fetched some record twice has ended and its record is in a
\* report of at least two data rows
C1_Witness ==
    /\ pc = "idle"
    /\ HasDuplicateId(invoices)
    /\ \E i \in 1..Len(invoices) : KsefId(invoices[i]) \in ReportIds(sheet)
    /\ Len(ReportDataRows(sheet)) >= 2

\* C2: syncing a list of raw records and syncing the same list again over the
\* report the first sync wrote accepts no row the second time and leaves the
\* set of data rows as the first sync left it (stated for syncs whose writes
\* all completed)
C2_MergeIdempotent ==
    (pc = "merged" /\ ~write_failed) =>
        /\ new_rows = <<>>
        /\ Range(ReportDataRows(sheet)) = Range(ReportDataRows(pre_sheet))

\* C3: a data row X that was in the report when a run started, and that the
\* run fetched again, still has its four annotation cells when the run has
\* ended (stated for the runs that do not restart the history from scratch)
C3_AnnotationsKept ==
    (pc = "idle" /\ mode \in {"A", "B", "C"} /\ ~(mode = "A" /\ ~should_resume)) =>
        LET before == ReportDataRows(pre_sheet)
        IN \A i \in 1..Len(before) :
             before[i].id \in IdsOf(invoices) =>
                 \E j \in 1..Len(sheet) :
                     sheet[j].id = before[i].id /\ sheet[j].notes = before[i].notes

\* C4: a 403 answer to a call that carries a bearer credential (status poll,
\* redeem, query page) ends the run in the batch-fatal abort at once
C4_Bearer403IsFatal ==
    (last.call \in {"poll", "redeem", "query"} /\ last.http = 403) =>
        /\ exc = "SystemExit"
        /\ pc \in {"auth_ret", "gi_ret", "exited"}

\* ids of the gateway's records whose date fields parse
DatedIds == {KsefId(GatewayRecords[i]) : i \in
                {k \in 1..Len(GatewayRecords) : GatewayRecords[k].df # "none"}}

\* C5: when a full-history process has ended and a checkpoint is stored, every
\* record fetched in the chunks whose lower bounds were checkpointed is in the
\* report (stated for dated records and completed writes)
C5_CheckpointedRecordsStored ==
    (pc \in {"idle", "exited"} /\ mode = "A" /\ progress # NoCheckpoint
        /\ ~write_failed) =>
        (ck_ids \cap DatedIds) \subseteq ReportIds(sheet)

\* the checkpoint a failed walk must leave: the lower bound of the last chunk
\* it fetched, or what was stored when it began
CheckpointLeft ==
    IF last_ok_lo = NoCheckpoint THEN pre_progress ELSE last_ok_lo

C6_State ==
    walk_failed =>
        /\ pc \in {"process", "idle", "exited"}
        /\ invoices = <<>>
        /\ mode = "B" => pc = "exited"
        /\ progress = CheckpointLeft

C6_Step ==
    (walk_failed /\ walk_failed') => (~RequestSent /\ progress' = progress)

\* C6: when the fetch of a chunk raises, the walk ends at once: the error
\* reaches main (whose invoices stay empty, and which exits in mode B), no
\* request is sent afterwards, the failed chunk writes no checkpoint and the
\* stored checkpoint is the lower bound of the last chunk fetched, or what it
\* was before the walk when the first chunk failed
C6_FailedChunkStopsWalk == [](C6_State) /\ [][C6_Step]_vars

\* a walk failed in its second or a later chunk
C6_Witness ==
    /\ walk_failed
    /\ last_ok_lo # NoCheckpoint
    /\ progress = last_ok_lo

\* C7: when every redeem answer is a retryable status, exactly 5 redeem
\* requests are sent, then authenticate fails with the exhaustion error; no
\* sixth request is ever sent and no bearer credential is set
C7_RedeemRetryBound ==
    /\ nredeem <= 5
    /\ (nredeem >= 1 /\ redeem_retryable) =>
          /\ bearer = None
          /\ nredeem < 5 => (pc = "redeem" /\ exc = "none")
          /\ nredeem = 5 => (pc = "auth_ret" /\ exc = "Exception")

\* five retryable answers in a row
C7_Witness ==
    /\ nredeem = 5
    /\ redeem_retryable
    /\ last.call = "redeem"
    /\ last.http = 480
    /\ pc = "auth_ret"

\* C8: a 401 or 403 answer to a redeem request ends redemption at once in the
\* batch-fatal abort (SystemExit, as _post raises), not in an ordinary
\* exception a per-tenant handler would catch
C8_Redeem403IsBatchFatal ==
    (last.call = "redeem" /\ last.http \in {401, 403}) =>
        /\ pc = "auth_ret"
        /\ exc = "SystemExit"

Is429 == last.call = "query" /\ last.http = 429

C9_State ==
    Is429 => \/ pc = "gi_ret" /\ exc = "SystemExit"
             \/ pc = "exited" /\ exc = "SystemExit"

C9_Step ==
    (Is429 /\ Is429') =>
        /\ ~RequestSent
        /\ progress' = progress
        /\ invoices' = invoices
        /\ new_rows' = new_rows

\* C9: a 429 answer to a query page raises SystemExit: no handler of the walk
\* or of main catches it, the process exits, and until it has exited no
\* request is sent, no checkpoint written and no row processed
C9_RateLimitAbortsRun == [](C9_State) /\ [][C9_Step]_vars

\* a 429 in the second or a later chunk of a full-history walk
C9_Witness ==
    /\ Is429
    /\ pc = "exited"
    /\ mode = "A"
    /\ last_ok_lo # NoCheckpoint

\* get_invoices returned without raising and the gateway answered 200 throughout
FetchedClean == pc = "gi_ret" /\ exc = "none" /\ budget = FetchMaxAnomalies

RECURSIVE ConcatPages(_, _, _)
ConcatPages(recs, p, j) ==
    IF j < 0 THEN <<>>
    ELSE ConcatPages(recs, p, j - 1) \o GatewayPage(recs, j, p)

Offsets(j) == [i \in 1..(j + 1) |-> i - 1]

\* index of the first page holding fewer than p records
FirstShortPage(recs, p) == Len(recs) \div p

\* the first offset the 10k safeguard refuses
CeilingOffset(p) == (ResultCeiling + p - 1) \div p

\* C10 as stated: the requests are for offsets 0, 1, 2, ... up to the first
\* page with fewer than p records, and the result is those pages concatenated
C10_PagesToFirstShort ==
    FetchedClean =>
        /\ offs = Offsets(FirstShortPage(served, page_size))
        /\ all_invoices = ConcatPages(served, page_size,
                                      FirstShortPage(served, page_size))

\* C10, amended: as stated when the first short page has an offset below the
\* ceiling offset; otherwise the requests stop before the ceiling offset and
\* the result is the full pages before it
C10_PagesToFirstShortOrCeiling ==
    /\ budget = FetchMaxAnomalies => offs = Offsets(Len(offs) - 1)
    /\ FetchedClean =>
          LET j == Min(FirstShortPage(served, page_size),
                       CeilingOffset(page_size) - 1)
          IN /\ offs = Offsets(j)
             /\ all_invoices = ConcatPages(served, page_size, j)

\* page size 2, pages [r1, r2] and [r3]
C10_Witness ==
    /\ FetchedClean
    /\ page_size = 2
    /\ served = <<1, 2, 3>>
    /\ offs = <<0, 1>>
    /\ all_invoices = <<1, 2, 3>>

\* the walk returned after its loop test failed: no fetch raised, the
\* empty-streak prompt did not stop it
WalkCompleted ==
    /\ pc = "process"
    /\ ~walk_failed
    /\ ~end_date.aware
    /\ current_pointer.t <= start_date

CeilDiv(a, d) == (a + d - 1) \div d

\* the lower bound of the i-th chunk of a walk down from end_date
ChunkLowerBound(i) ==
    IF end_date.t - i * chunk_days >= start_date
        THEN end_date.t - i * chunk_days
        ELSE start_date

\* C11: in a walk over [from, to] every checkpoint write is the lower bound
\* of the chunk just fetched and is stored, successive writes strictly
\* decrease, and when the walk completes there are ceil((to - from) / 30)
\* writes, the last of them equal to from
C11_CheckpointWrites ==
    /\ ~end_date.aware =>
          /\ \A i \in 1..Len(writes) :
                /\ writes[i] = ChunkLowerBound(i)
                /\ i > 1 => writes[i] < writes[i - 1]
          /\ writes # <<>> => progress = writes[Len(writes)]
    /\ WalkCompleted =>
          /\ Len(writes) = CeilDiv(end_date.t - start_date, chunk_days)
          /\ writes # <<>> => writes[Len(writes)] = start_date

\* a completed walk over 90 days: three writes
C11_Witness ==
    /\ WalkCompleted
    /\ end_date.t - start_date = 90
    /\ Len(writes) = 3
    /\ writes[3] = start_date

\* C12: a full-history run that resumes from a saved checkpoint later than the
\* overall start, once authenticated, walks down from the checkpoint: when it
\* has left the walk it has issued at least one chunk query
C12_ResumedRunQueries ==
    (/\ mode = "A"
     /\ should_resume
     /\ pre_progress > absolute_start
     /\ pc \in {"process", "sync", "idle"}) =>
        /\ last.call = "query"
        /\ end_date.t = pre_progress

\* this step starts a process
RunStarts == pc \in {"idle", "exited"} /\ pc' = "challenge"

\* this step starts a full-history run from scratch
StartsFromScratch == RunStarts /\ mode' = "A" /\ ~should_resume'

C13_Step ==
    /\ (progress # NoCheckpoint /\ progress' = NoCheckpoint) => StartsFromScratch
    /\ ~(ReportIds(sheet) \subseteq ReportIds(sheet')) => StartsFromScratch
    /\ (RunStarts /\ should_resume') =>
          /\ sheet' = sheet
          /\ progress' = progress
          /\ existing_ids' \in {GetExistingIds(sheet), {}}

\* C13: a step deletes the checkpoint or removes data rows from the report
\* only when it starts a full-history run from scratch; a run that resumes
\* leaves the report and the checkpoint as they are when it starts and loads
\* the ids of the report (none when the read raised)
C13_ClearedOnlyFromScratch == [][C13_Step]_vars

\* C14: in the report a sync wrote, the member rows of the period groups are
\* exactly the existing data rows plus the accepted new rows, each once, the
\* rows without a parseable issue date included
C14_GroupingComplete ==
    (pc \in {"merge2", "merged"} /\ ~write_failed /\ new_rows # <<>>) =>
        LET data == ReportDataRows(sheet)
        IN /\ Range(data) = Range(ReportDataRows(pre_sheet)) \cup Range(new_rows)
           /\ \A i, j \in 1..Len(data) : data[i].id = data[j].id => i = j

IsDataRow(row) == row.id # HeaderId /\ row.id # "" /\ ~StartsWithDashes(row.id)

\* no row with a parseable date cell after a row without one
UnparseableLast(rows) ==
    \A i, j \in 1..Len(rows) :
        (i < j /\ IsDataRow(rows[i]) /\ IsDataRow(rows[j]) /\ rows[i].date = NA)
            => rows[j].date = NA

RedeemSucceeds ==
    /\ pc = "redeem"
    /\ last'.call = "redeem"
    /\ last'.http = 200
    /\ last'.ps = TokenInBody

C16_State ==
    /\ pc \in {"challenge", "certs", "init", "poll", "redeem"} => bearer = None
    /\ bearer # None => (bearer = "access" /\ nredeem >= 1)

C16_Step ==
    /\ RedeemSucceeds => bearer' = "access"
    /\ bearer' # bearer =>
          \/ bearer = None /\ RedeemSucceeds
          \/ RunStarts /\ bearer' = None

\* C16: the bearer credential of a client is absent until a redeem request
\* succeeds, is set to the redeemed token by that request, and then no
\* operation on the client changes it (the next process builds a new client)
C16_BearerSetOnce == [](C16_State) /\ [][C16_Step]_vars

\* queries were sent with the bearer credential and the process has ended
C16_Witness ==
    /\ bearer = "access"
    /\ last.call = "query"
    /\ pc = "idle"

\* the last exchange was a status poll that reported the authorized status
PollReportedAuthorized ==
    last.call = "poll" /\ last.http = 200 /\ last.ps = 300

C17_State ==
    /\ poll_i <= 10
    /\ pc = "poll" => (reference_number /\ poll_i < 10 /\ nredeem = 0)
    /\ PollReportedAuthorized => (pc = "redeem" /\ exc = "none" /\ poll_i < 10)
    /\ (last.call = "poll" /\ ~PollReportedAuthorized) =>
          IF poll_i < 10
              THEN pc = "poll" /\ exc = "none"
              ELSE pc = "auth_ret" /\ exc = "Exception"
    /\ poll_i = 10 => (nredeem = 0 /\ bearer = None /\ pc = "auth_ret")

C17_Step ==
    /\ (pc = "poll" /\ pc' = "poll") => poll_i' = poll_i + 1
    /\ (pc = "poll" /\ pc' = "redeem") => poll_i' = poll_i

\* C17: after an init answer with a reference number the status endpoint is
\* polled at most 10 times; the first answer reporting status 300 ends the
\* polling and redeem follows; any other answer, a transport error included,
\* consumes one attempt and is retried; after 10 such answers authenticate
\* fails with the timeout exception and no redeem request is sent
C17_PollingBounded == [](C17_State) /\ [][C17_Step]_vars

\* ten polls, the last a transport error, and the timeout
C17_Witness ==
    /\ poll_i = 10
    /\ last.call = "poll"
    /\ last.http = 0
    /\ pc = "auth_ret"
    /\ exc = "Exception"
    /\ nredeem = 0

\* authenticate raised an error that concerns this tenant alone: a protocol
\* error, an exhausted poll or redeem loop, a missing token
TenantScopedFailure ==
    pc = "auth_ret" /\ exc \notin {"none", "SystemExit"}

\* C18: a tenant-scoped failure raised by authenticate is logged and the
\* process goes on: it does not exit, so the tenants after the failing one
\* can still be processed in the same run
C18_TenantFailureContinues ==
    [][TenantScopedFailure => pc' # "exited"]_vars

\* the rewrite of step 8 left the report as it was, or wrote the whole merged
\* layout
C19_Step ==
    pc = "sync" =>
        \/ sheet' = sheet
        \/ sheet' = WrittenSheet(sheet, new_rows, "written")

\* C19: whatever happens during the rewrite of the report, a failure or abort
\* included, the stored report afterwards is exactly its previous content or
\* exactly the new full merged layout, never an empty or partly written
\* report, so the existing rows and their annotations survive a failed write
C19_RewriteIsAtomic == [][C19_Step]_vars

\* what one process of main in mode m makes of the report sh when it runs
\* alone
SyncAlone(sh, m) ==
    LET r == Process(ConcFetched(m), GetExistingIds(sh))
    IN IF r.rows = <<>> THEN sh ELSE SyncOutput(sh, r.rows)

BothDone == \A p \in Procs : procs[p].at = "done"

\* C20: when two sync processes on the same report overlap, the final report
\* is what the two would have produced running one after the other in some
\* order, and no record id appears in it twice
C20_OverlapIsSerialized ==
    BothDone =>
        /\ \/ sheet = SyncAlone(SyncAlone(pre_sheet, procs[1].mode), procs[2].mode)
           \/ sheet = SyncAlone(SyncAlone(pre_sheet, procs[2].mode), procs[1].mode)
        /\ Cardinality(ReportIds(sheet)) = Len(ReportDataRows(sheet))

\* the value the operations ops[1..i] leave in the store: that of the last
\* save no clear followed, NoCheckpoint when there is none
RECURSIVE StoredAfter(_, _)
StoredAfter(ops, i) ==
    IF i = 0 THEN NoCheckpoint
    ELSE IF ops[i].op = "save" THEN ops[i].v
    ELSE IF ops[i].op = "clear" THEN NoCheckpoint
    ELSE StoredAfter(ops, i - 1)

LoadedLast ==
    store_ops # <<>> /\ store_ops[Len(store_ops)].op = "load"

C21_State ==
    /\ progress = StoredAfter(store_ops, Len(store_ops))
    /\ LoadedLast => last_checkpoint = StoredAfter(store_ops, Len(store_ops))

C21_Step ==
    (Len(store_ops') > Len(store_ops) /\ store_ops'[Len(store_ops')].op = "load")
        => progress' = progress

\* C21: after any sequence of save, clear and load operations on the
\* checkpoint store, a load returns the value of the most recent save when no
\* clear followed it and not-found (None) when nothing was saved or a clear
\* came last, and a load never changes the stored value
C21_LastWriteWins == [](C21_State) /\ [][C21_Step]_vars

\* two saves, then a load that returns the second
C21_Witness ==
    /\ Len(store_ops) = 3
    /\ store_ops[1].op = "save"
    /\ store_ops[2].op = "save"
    /\ store_ops[2].v # store_ops[1].v
    /\ store_ops[3].op = "load"
    /\ last_checkpoint = store_ops[2].v

\* authenticate has returned or raised
AuthEnded == pc = "auth_ret"

\* the last exchange was a redeem answered 200 with the access token
RedeemedLast ==
    last.call = "redeem" /\ last.http = 200 /\ last.ps = TokenInBody

\* what must have come just before a request of each kind
C22_Precedes(call) ==
    CASE call = "challenge" -> last = NoExchange
      [] call = "certs" -> last.call = "challenge" /\ last.http = 200
      [] call = "init" -> last.call = "certs" /\ last.http = 200
      [] call = "poll" ->
            /\ reference_number
            /\ session_token = "initial"
            /\ \/ last.call = "init" /\ last.http = 200
               \/ last.call = "poll" /\ ~PollReportedAuthorized
      [] call = "redeem" ->
            /\ session_token = "initial"
            /\ \/ PollReportedAuthorized
               \/ last.call = "init" /\ last.http = 200 /\ ~reference_number
               \/ last.call = "redeem" /\ last.http \in RedeemRetryStatuses
      [] OTHER -> FALSE

C22_Step ==
    /\ AuthChallenge => C22_Precedes("challenge")
    /\ AuthCerts => C22_Precedes("certs")
    /\ AuthInit => C22_Precedes("init")
    /\ AuthPoll => C22_Precedes("poll")
    /\ AuthRedeem => C22_Precedes("redeem")
    /\ RequestSent => (~AuthEnded /\ exc = "none")

C22_State ==
    /\ AuthEnded => (exc = "none" <=> RedeemedLast)
    /\ (~AuthEnded /\ last.call = "init") =>
          /\ last.http = 200
          /\ pc = IF reference_number THEN "poll" ELSE "redeem"
    /\ poll_i > 0 => reference_number

\* C22: in an authentication run the gateway calls come in the order
\* challenge, certificate list, init, status polls, redeem, each sent only
\* after the one before it succeeded; polling happens exactly when the init
\* answer carried a reference number; a redeem request is sent only after a
\* poll reported the authorized status, or after init when there is no
\* reference number (or as the retry of a redeem); when a step fails the run
\* has ended in failure and no later request is sent
C22_AuthOrder == [](C22_State) /\ [][C22_Step]_vars

\* the whole sequence with one unauthorized poll, ending redeemed
C22_Witness ==
    /\ AuthEnded
    /\ exc = "none"
    /\ RedeemedLast
    /\ reference_number
    /\ poll_i = 1
    /\ bearer = "access"

\* the last query request was answered 401 or 403
QueryRefused == last.call = "query" /\ last.http \in {401, 403}

C23_State ==
    QueryRefused =>
        IF offs = <<0>>
            THEN /\ pc = "page"
                 /\ exc = "none"
                 /\ page_offset = 0
                 /\ ~retry_auth
            ELSE /\ pc = "gi_ret"
                 /\ exc = "SystemExit"
                 /\ Len(offs) >= 2

C23_Step ==
    /\ (QueryRefused /\ pc = "gi_ret") => ~PageRequest
    /\ (PageRequest /\ QueryRefused /\ pc = "page") =>
          /\ slept = RetrySleep
          /\ offs' = <<0, 0>>
          /\ QueryRefused' => (pc' = "gi_ret" /\ exc' = "SystemExit")

\* C23: a 401 or 403 answer to the first request for page offset 0 is retried
\* exactly once, after the fixed delay; a 401 or 403 answer to that retry, or to a request for a
\* later page, is the batch-fatal abort (SystemExit) and no request follows
\* it, so a gateway that always answers 403 receives exactly two requests
C23_FirstPageRetryOnce == [](C23_State) /\ [][C23_Step]_vars

\* both the first request and its retry were refused
C23_Witness ==
    /\ offs = <<0, 0>>
    /\ last.call = "query"
    /\ last.http = 403
    /\ budget = FetchMaxAnomalies - 2
    /\ pc = "gi_ret"
    /\ exc = "SystemExit"

\* the fetch stopped at the 10k safeguard
StoppedAtCeiling ==
    pc = "gi_ret" /\ ret = "harness" /\ AtCeiling(page_offset, page_size)

\* C24: for every page size, a single-window fetch sends no page request
\* whose offset times page size reaches the ceiling, never holds more than
\* 10,000 records, and when it stops at the ceiling it returns what it
\* collected without an error
C24_ResultCeiling ==
    /\ \A i \in 1..Len(offs) : offs[i] * page_size < ResultCeiling
    /\ Len(all_invoices) <= 10000
    /\ StoppedAtCeiling =>
          /\ exc = "none"
          /\ all_invoices = ConcatPages(served, page_size, page_offset - 1)

\* C25: every query request, the retry of page 0 included, is sent after
\* get_invoices has slept at least the minimum throttle interval (1 second)
\* since the previous query request; no two requests go back to back
C25_Throttled == [][PageRequest => slept >= 1]_vars

\* page 0 was refused and retried, and a further page is about to be asked
\* for after the throttle
C25_Witness ==
    /\ Len(offs) = 3
    /\ offs[1] = 0
    /\ offs[2] = 0
    /\ offs[3] = 1
    /\ pc = "page"
    /\ slept = ThrottleSleep

\* the extraction has run
Extracted == pc \in {"gi_ret", "count"} /\ ret = "extract"

NoKnownName ==
    /\ ~HasField(resp_json, "invoiceHeaderList")
    /\ ~HasField(resp_json, "invoiceMetadataList")

\* positions of the list-valued fields, and of those that hold something
ListFields == {i \in 1..Len(resp_json) : resp_json[i].val.list}

FilledListFields == {i \in ListFields : resp_json[i].val.items # <<>>}

\* the items of the first field among the positions fs, nothing when fs is
\* empty
FirstOf(fs) ==
    IF fs = {} THEN <<>>
    ELSE resp_json[CHOOSE i \in fs : \A j \in fs : i <= j].val.items

\* the chain with the fallback picking among the positions fs
ChainWith(fs) ==
    IF HasField(resp_json, "invoiceHeaderList")
        THEN FieldValue(resp_json, "invoiceHeaderList").items
    ELSE IF HasField(resp_json, "invoiceMetadataList")
        THEN FieldValue(resp_json, "invoiceMetadataList").items
    ELSE FirstOf(fs)

\* C26 as stated: the page's record list is the value of invoiceHeaderList
\* when present, else of invoiceMetadataList when present, else the first
\* list-valued field in field order; an empty list ends the paging
C26_FirstListField ==
    Extracted =>
        /\ current_batch = ChainWith(ListFields)
        /\ (pc = "gi_ret") <=> (current_batch = <<>>)

\* C26: the page's record list is the value of invoiceHeaderList when
\* present, else of invoiceMetadataList when present, else the first
\* list-valued field in field order that is not empty; when no field
\* matches, or the list taken is empty, the page counts as empty and the
\* paging ends
C26_FirstNonEmptyListField ==
    Extracted =>
        /\ current_batch = ChainWith(FilledListFields)
        /\ (pc = "gi_ret") <=> (current_batch = <<>>)

\* no known name, an empty list first, and the records of a later field taken
C26_Witness ==
    /\ Extracted
    /\ NoKnownName
    /\ ListFields # FilledListFields
    /\ FirstOf(ListFields) = <<>>
    /\ current_batch # <<>>
    /\ pc = "count"

\* the walk returned before its pointer reached the start date, without an
\* error: the breaker stopped it
BreakerHalted ==
    /\ pc = "process"
    /\ ~walk_failed
    /\ writes # <<>>
    /\ current_pointer.t > start_date

\* the gateway holds no record for the i-th chunk fetched by this walk
ChunkWasEmpty(i) ==
    WindowRecords(writes[i],
                  QueryEnd(IF i = 1 THEN end_date.t ELSE writes[i - 1]),
                  FALSE) = <<>>

\* the number of empty chunks at the end of the first n chunks
RECURSIVE TrailingEmpty(_)
TrailingEmpty(n) ==
    IF n = 0 \/ ~ChunkWasEmpty(n) THEN 0 ELSE 1 + TrailingEmpty(n - 1)

C27_State ==
    /\ BreakerHalted =>
          /\ Len(writes) >= 3
          /\ TrailingEmpty(Len(writes)) >= 3
          /\ progress = writes[Len(writes)]
          /\ exc = "none"
          /\ invoices = walk_invoices
    /\ (pc = "page" /\ writes # <<>>) =>
          /\ empty_chunk_streak < 3
          /\ empty_chunk_streak <= TrailingEmpty(Len(writes))
          /\ ~ChunkWasEmpty(Len(writes)) => empty_chunk_streak = 0

C27_Step ==
    (WalkAfterChunk /\ exc = "none" /\ all_invoices = <<>>
        /\ empty_chunk_streak = 2 /\ pc' = "page") => empty_chunk_streak' = 0

\* C27: the breaker halts a chunked walk only when the last 3 chunks fetched
\* returned no record; a chunk with a record, or the decision to continue,
\* resets the streak to zero; when the breaker halts the walk the checkpoint
\* of the last chunk fetched is stored and the records gathered so far are
\* returned without an error
C27_EmptyStreakBreaker == [](C27_State) /\ [][C27_Step]_vars

\* records gathered, then three empty chunks and the halt
C27_Witness ==
    /\ BreakerHalted
    /\ Len(writes) = 4
    /\ invoices # <<>>
    /\ empty_chunk_streak = 3

\* a sync of the merge has run on `invoices` over the report pre_sheet
MergeRan == pc \in {"merge2", "merged"}

\* the i-th candidate must be accepted: it has an id, the id is not in the
\* report, and no earlier candidate of the batch carries it
MustAccept(i) ==
    /\ KsefId(invoices[i]) # ""
    /\ KsefId(invoices[i]) \notin ReportIds(pre_sheet)
    /\ \A j \in 1..(i - 1) : KsefId(invoices[j]) # KsefId(invoices[i])

RECURSIVE AcceptedUpTo(_)
AcceptedUpTo(n) ==
    IF n = 0 THEN <<>>
    ELSE IF MustAccept(n) THEN Append(AcceptedUpTo(n - 1), BuildRow(invoices[n]))
    ELSE AcceptedUpTo(n - 1)

WithoutId == {i \in 1..Len(invoices) : KsefId(invoices[i]) = ""}

RejectedDuplicates ==
    {i \in 1..Len(invoices) : KsefId(invoices[i]) # "" /\ ~MustAccept(i)}

SyntheticRows ==
    {k \in 1..Len(new_rows) :
        new_rows[k].id # "" /\ new_rows[k].id \notin IdsOf(GatewayRecords)}

\* C29: the record id of a candidate is ksefReferenceNumber when present and
\* not empty, else ksefNumber, else a synthetic id: a raw record with neither
\* field is given a synthetic id and yields a row instead of being dropped
C29_IdResolution ==
    MergeRan =>
        /\ \A i \in 1..Len(invoices) :
              /\ invoices[i].ref # "" => invoices[i].ref \in existing_ids
              /\ (invoices[i].ref = "" /\ invoices[i].num # "") =>
                    invoices[i].num \in existing_ids
        /\ Cardinality(SyntheticRows) = Cardinality(WithoutId)

\* positions of the header rows and of the group-label rows of a report
HeaderRowsOf(sh) == {i \in 1..Len(sh) : sh[i].id = HeaderId}

LabelRowsOf(sh) == {i \in 1..Len(sh) : StartsWithDashes(sh[i].id)}

\* the months of the dated data rows of a report
MemberMonths(sh) ==
    LET data == ReportDataRows(sh)
    IN {data[i].date \div DaysPerMonth : i \in {k \in 1..Len(data) : data[k].date # NA}}

\* C30: after any number of consecutive syncs the report holds exactly one
\* header row and exactly one group-label row for each month that has member
\* rows, no row with an empty id, and its count of data rows has changed by
\* the rows the sync accepted and by nothing else
C30_NoStructuralAccumulation ==
    (MergeRan /\ ~write_failed) =>
        /\ new_rows # <<>> =>
              /\ HeaderRowsOf(sheet) = {1}
              /\ {sheet[i].id : i \in LabelRowsOf(sheet)} =
                     {LabelText(m) : m \in MemberMonths(sheet)}
              /\ Cardinality(LabelRowsOf(sheet)) = Cardinality(MemberMonths(sheet))
        /\ \A i \in 1..Len(sheet) : sheet[i].id # ""
        /\ Len(ReportDataRows(sheet)) =
              Len(ReportDataRows(pre_sheet)) + Len(new_rows)

\* the month a group-label row names
LabelMonth(row) == CHOOSE m \in Months : LabelText(m) = row.id

MonthOf(row) == row.date \div DaysPerMonth

\* positions of the label rows of a report, and the months they name
LabelMonths(sh) == {LabelMonth(sh[i]) : i \in LabelRowsOf(sh)}

\* header first; every other row is a label row followed by a member row of
\* its month, with every earlier label naming an earlier month, or a dated
\* member row that follows its label or a member row of the same month
PeriodLayout(sh) ==
    /\ sh # <<>>
    /\ sh[1] = HeaderRow
    /\ \A i \in 2..Len(sh) :
          IF StartsWithDashes(sh[i].id)
              THEN /\ sh[i] = LabelRow(LabelMonth(sh[i]))
                   /\ i < Len(sh)
                   /\ IsDataRow(sh[i + 1])
                   /\ \A j \in 2..(i - 1) :
                         StartsWithDashes(sh[j].id) =>
                             LabelMonth(sh[j]) < LabelMonth(sh[i])
              ELSE /\ IsDataRow(sh[i])
                   /\ sh[i].date # NA
                   /\ i > 2
                   /\ IF StartsWithDashes(sh[i - 1].id)
                         THEN LabelMonth(sh[i - 1]) = MonthOf(sh[i])
                         ELSE MonthOf(sh[i - 1]) = MonthOf(sh[i])

\* the months of the dated rows a sync merges: those of the report it read
\* and those of the rows it accepted
MergedMonths ==
    MemberMonths(pre_sheet)
        \cup {MonthOf(new_rows[k]) : k \in {n \in 1..Len(new_rows) : new_rows[n].date # NA}}

\* C31: the written report is the header row, then the period groups in
\* strictly increasing month order, each one label row followed at once by
\* its contiguous member rows; every month present in the merged data yields
\* exactly one group, also when existing rows and new rows of one month are
\* merged
C31_EmissionOrder ==
    (MergeRan /\ ~write_failed /\ new_rows # <<>>) =>
        /\ PeriodLayout(sheet)
        /\ LabelMonths(sheet) = MergedMonths
        /\ Cardinality(LabelRowsOf(sheet)) = Cardinality(MergedMonths)

\* a new row was merged into the month of two existing rows, between two
\* other groups
C31_Witness ==
    /\ pc = "merge2"
    /\ ~write_failed
    /\ \E k \in 1..Len(new_rows) :
          /\ new_rows[k].date # NA
          /\ Cardinality({i \in 1..Len(pre_sheet) :
                             /\ IsDataRow(pre_sheet[i])
                             /\ MonthOf(pre_sheet[i]) = MonthOf(new_rows[k])}) = 2
          /\ Cardinality({i \in 1..Len(sheet) :
                             /\ IsDataRow(sheet[i])
                             /\ MonthOf(sheet[i]) = MonthOf(new_rows[k])}) = 3
    /\ Cardinality(LabelRowsOf(sheet)) = 3

\* a sync of the merge wrote the report
MergeWrote == MergeRan /\ ~write_failed /\ new_rows # <<>>

\* the label row a group hangs under: the row above its range (the ranges
\* count rows from 0, the rows of a report are numbered from 1)
LabelOfGroup(g) == sheet[g.startIndex]

\* the dated rows a sync merged: those it read and those it accepted
MergedDated ==
    {r \in Range(ReportDataRows(pre_sheet)) \cup Range(new_rows) : r.date # NA}

\* C32: in the grouping hints of a written report a group is marked collapsed
\* exactly when its month is not the current month; every label row has its
\* group, and the member rows of the collapsed groups are written like the
\* others
C32_CollapsePolicy ==
    MergeWrote =>
        /\ Len(groups_metadata) = Cardinality(LabelRowsOf(sheet))
        /\ \A k \in 1..Len(groups_metadata) :
              /\ StartsWithDashes(LabelOfGroup(groups_metadata[k]).id)
              /\ groups_metadata[k].collapsed <=>
                    (LabelMonth(LabelOfGroup(groups_metadata[k]))
                        # Today \div DaysPerMonth)
        /\ \A r \in MergedDated :
              \E i \in 1..Len(sheet) : sheet[i].id = r.id /\ sheet[i].date = r.date

\* a row was accepted into a collapsed group next to the expanded group of
\* the current month
C32_Witness ==
    /\ pc = "merge2"
    /\ ~write_failed
    /\ Len(groups_metadata) >= 2
    /\ ~groups_metadata[Len(groups_metadata)].collapsed
    /\ groups_metadata[1].collapsed
    /\ \E k \in 1..Len(new_rows) :
          /\ new_rows[k].date # NA
          /\ MonthOf(new_rows[k]) # Today \div DaysPerMonth
          /\ \E i \in 1..Len(sheet) : sheet[i] = new_rows[k]

\* the members of the group under the label row at position s of a report:
\* the positions after s up to the next label row
MembersUnder(sh, s) ==
    {i \in (s + 1)..Len(sh) :
        \A j \in (s + 1)..i : ~StartsWithDashes(sh[j].id)}

\* the positions (from 1) of the rows a range covers: the rows with the
\* 0-based indices startIndex .. endIndex - 1
Covered(g) == (g.startIndex + 1)..g.endIndex

\* C39: for every group of the hints, the row at index startIndex - 1 of the
\* written report is the group's label row and the rows at the indices
\* startIndex .. endIndex - 1 are exactly its member rows; the ranges are
\* disjoint, hold no header or label row and lie within the written rows
C39_HintsMatchRows ==
    MergeWrote =>
        /\ Len(groups_metadata) = Cardinality(LabelRowsOf(sheet))
        /\ \A k \in 1..Len(groups_metadata) :
              LET g == groups_metadata[k]
              IN /\ g.startIndex >= 1
                 /\ g.startIndex < g.endIndex
                 /\ g.endIndex <= Len(sheet)
                 /\ StartsWithDashes(LabelOfGroup(g).id)
                 /\ Covered(g) = MembersUnder(sheet, g.startIndex)
                 /\ \A i \in Covered(g) :
                       /\ IsDataRow(sheet[i])
                       /\ MonthOf(sheet[i]) = LabelMonth(LabelOfGroup(g))
        /\ \A k, n \in 1..Len(groups_metadata) :
              k # n => Covered(groups_metadata[k]) \cap Covered(groups_metadata[n]) = {}

\* two groups, the first of two rows, the second holding an accepted row
C39_Witness ==
    /\ pc = "merge2"
    /\ ~write_failed
    /\ Len(groups_metadata) = 2
    /\ groups_metadata[1].endIndex - groups_metadata[1].startIndex = 2
    /\ \E i \in Covered(groups_metadata[2]) : sheet[i] \in Range(new_rows)

\* a chunk of the walk is being fetched
InChunk == pc = "page" /\ ret = "walk"

\* the upper bound of the i-th chunk of this walk
ChunkUpperBound(i) == IF i = 1 THEN end_date.t ELSE writes[i - 1]

C33_State ==
    /\ InChunk =>
          /\ chunk_start = (IF current_pointer.t - 30 >= start_date
                               THEN current_pointer.t - 30 ELSE start_date)
          /\ chunk_start >= start_date
          /\ chunk_start < current_pointer.t
          /\ \E dup \in BOOLEAN :
                served = WindowRecords(chunk_start, current_pointer.t + 1, dup)
          /\ current_pointer.t = ChunkUpperBound(Len(writes) + 1)
    /\ WalkCompleted =>
          /\ current_pointer.t = start_date
          /\ end_date.t > start_date =>
                \A d \in start_date..end_date.t :
                    \E i \in 1..Len(writes) :
                        writes[i] <= d /\ d <= ChunkUpperBound(i)
          /\ \A i \in 1..Len(writes) :
                writes[i] >= start_date /\ writes[i] < ChunkUpperBound(i)

C33_Step ==
    (WalkAfterChunk /\ pc' = "page") =>
        /\ current_pointer'.t = chunk_start
        /\ current_pointer'.t < current_pointer.t
        /\ current_pointer'.t > start_date

\* C33: in every iteration of the backward walk the chunk lower bound is
\* max(upper bound - chunk size, overall start), the window queried is
\* [lower bound, upper bound + 1 day] and the next upper bound is this lower
\* bound; so the upper bound strictly decreases, no query reaches below the
\* overall start, and a walk that completes has covered [overall start,
\* overall end] without a gap (a range with end after start; an empty range
\* has no iteration) and ends with the upper bound at the overall start
C33_WindowsTileRange == [](C33_State) /\ [][C33_Step]_vars

\* the third chunk of a walk is clamped to the overall start and its window
\* holds a record
C33_Witness ==
    /\ InChunk
    /\ Len(writes) = 2
    /\ chunk_start = start_date
    /\ current_pointer.t - chunk_start < chunk_days
    /\ served # <<>>

\* C34: the newly-written count of a run's summary is the number of data
\* rows by which the stored report grew in the run, and so zero when the
\* write to the report failed
C34_NewSyncedIsGrowth ==
    MergeRan =>
        Len(ReportDataRows(sheet)) = Len(ReportDataRows(pre_sheet)) + NewSynced

\* a full-history walk started from scratch has checkpointed records and has
\* not reached the overall start
HistoryWalkOpen == ck_ids # {} /\ progress > absolute_start

\* C35: between a fresh full-history start and the completion of that walk
\* no step of any run replaces the stored checkpoint by a later one: the
\* checkpoint only moves backward (a fresh full-history start removes it)
C35_CheckpointMovesBackward ==
    [][(HistoryWalkOpen /\ progress' # NoCheckpoint) => progress' <= progress]_vars

AuthSteps == {"challenge", "certs", "init", "poll", "redeem"}

\* the authentication of the running process ended without the bearer
\* credential: it failed at some step
AuthFailedRun == mode # "none" /\ bearer = None /\ pc \notin AuthSteps

C36_State ==
    /\ offs # <<>> => (bearer = "access" /\ nredeem >= 1)
    /\ AuthFailedRun =>
          /\ pc \in {"auth_ret", "exited"}
          /\ exc # "none"
          /\ last.call \in AuthSteps
          /\ offs = <<>>
          /\ writes = <<>>
          /\ invoices = <<>>
          /\ new_rows = <<>>

C36_Step ==
    /\ PageRequest => (bearer = "access" /\ mode # "none")
    /\ (AuthFailedRun /\ AuthFailedRun') =>
          /\ ~RequestSent
          /\ progress' = progress
          /\ ReportDataRows(sheet') = ReportDataRows(sheet)
             \/ (edits' = edits + 1 /\ ReportIds(sheet') = ReportIds(sheet))

\* C36: in every run mode a query request is sent only after the
\* authentication of the same run was redeemed; when authentication fails at
\* any step the run ends without a query request, without a checkpoint write
\* and without writing a fetched row to the report
C36_QueryOnlyAfterRedeem == [](C36_State) /\ [][C36_Step]_vars

\* a run over a report with data rows ended at a failed redeem
C36_Witness ==
    /\ AuthFailedRun
    /\ pc = "exited"
    /\ last.call = "redeem"
    /\ ReportIds(sheet) # {}
    /\ mode = "B"

\* page 0 was asked for twice: the one retry
Retried == Len(offs) >= 2 /\ offs[2] = 0

\* the page requests sent, the retry left out
PagesAsked == Len(offs) - (IF Retried THEN 1 ELSE 0)

C37_State ==
    /\ page_size \in 1..250
    /\ PagesAsked <= (9900 + page_size - 1) \div page_size
    /\ Len(offs) <= (9900 + page_size - 1) \div page_size + 1
    /\ offs # <<>> => offs[1] = 0
    /\ \A i \in 2..Len(offs) :
          \/ offs[i] = offs[i - 1] + 1
          \/ i = 2 /\ offs[1] = 0 /\ offs[2] = 0
    /\ PagesAsked = (9900 + page_size - 1) \div page_size => pc = "gi_ret"

C37_Step ==
    PageRequest =>
        /\ Len(offs') = Len(offs) + 1
        /\ pc' = "page" =>
              \/ page_offset' = page_offset + 1
              \/ /\ page_offset' = page_offset
                 /\ page_offset = 0
                 /\ retry_auth
                 /\ ~retry_auth'
        /\ pc' # "page" => pc' = "gi_ret"

\* C37: whatever the gateway answers, a single-window fetch with an
\* effective page size from 1 to 250 sends at most ceil(9900 / pageSize) page
\* requests plus at most one retry of page 0 and then returns or aborts;
\* every request but that retry advances the offset
C37_FetchTerminates == [](C37_State) /\ [][C37_Step]_vars

\* page 0 retried, then every page up to the ceiling: the most requests a
\* fetch with page size 250 can send
C37_Witness ==
    /\ pc = "gi_ret"
    /\ exc = "none"
    /\ page_size = 250
    /\ Retried
    /\ Len(offs) = 41
    /\ offs[41] = 39

\* C38: no step of a dry run (mode D), from the start of the run to its end,
\* changes the report store or the checkpoint: no spreadsheet is created, no
\* row appended, cleared or rewritten, no grouping sent and no checkpoint
\* written, whether or not the named report existed
C38_DryRunWritesNothing ==
    [][(mode' = "D" /\ edits' = edits) =>
          /\ sheet_exists' = sheet_exists
          /\ sheet' = sheet
          /\ groups_metadata' = groups_metadata
          /\ progress' = progress]_vars

\* no process is running
RunIdle ==
    /\ mode = "none"
    /\ should_resume = FALSE
    /\ existing_ids = {}
    /\ invoices = <<>>
    /\ new_rows = <<>>
    /\ skipped_count = 0
    /\ current_pointer = Naive(Today)
    /\ start_date = absolute_start
    /\ chunk_start = 0
    /\ empty_chunk_streak = 0
    /\ walk_invoices = <<>>
    /\ end_date = Naive(Today)
    /\ edits = 0
    /\ pre_sheet = ClearedSheet
    /\ pre_progress = NoCheckpoint
    /\ walk_failed = FALSE
    /\ last_ok_lo = NoCheckpoint
    /\ ck_ids = {}
    /\ write_failed = FALSE
    /\ writes = <<>>
    /\ procs = NoProcs
    /\ last_checkpoint = NoCheckpoint
    /\ store_ops = <<>>
    /\ resp_json = <<>>
    /\ current_batch = <<>>
    /\ groups_metadata = <<>>

\* no get_invoices call in progress
FetchIdle ==
    /\ served = <<>>
    /\ page_size = MaxPageSize
    /\ page_offset = 0
    /\ retry_auth = FALSE
    /\ all_invoices = <<>>
    /\ ret = "none"
    /\ offs = <<>>
    /\ slept = 0

\* no spreadsheet of the configured name yet, no checkpoint file
Init ==
    /\ pc = "idle"
    /\ exc = "none"
    /\ budget = MaxAnomalies
    /\ last = NoExchange
    /\ ClientInit
    /\ FetchIdle
    /\ sheet_exists = FALSE
    /\ sheet = <<>>
    /\ progress = NoCheckpoint
    /\ RunIdle

Spec == Init /\ [][Next]_vars

\* a KsefClient about to authenticate
InitAuth ==
    /\ pc = "challenge"
    /\ exc = "none"
    /\ budget = AuthMaxAnomalies
    /\ last = NoExchange
    /\ ClientInit
    /\ FetchIdle
    /\ sheet_exists = TRUE
    /\ sheet = ClearedSheet
    /\ progress = NoCheckpoint
    /\ RunIdle

SpecAuth == InitAuth /\ [][NextAuth]_vars

\* a get_invoices call on an authenticated client, for a page size and a window
MaxSmallWindow == 5


\* the records of a window of n records, numbered in the gateway's order
Numbered(n) == [i \in 1..n |-> i]

FetchCases ==
    {<<p, n>> : p \in {1, 2}, n \in 0..MaxSmallWindow}
    \cup {<<p, n>> : p \in {100, MaxPageSize, 1000},
                     n \in {0, 1, MaxPageSize, MaxPageSize + 1, ResultCeiling - 1,
                            ResultCeiling, ResultCeiling + 100, ResultCeiling + 101}}
    \cup {<<240, n>> : n \in {ResultCeiling + 100, ResultCeiling + 180}}

InitFetch ==
    /\ \E c \in FetchCases :
        /\ served = Numbered(c[2])
        /\ page_size = EffectivePageSize(c[1])
    /\ page_offset = 0
    /\ retry_auth = TRUE
    /\ all_invoices = <<>>
    /\ ret = "harness"
    /\ offs = <<>>
    /\ slept = ThrottleSleep
    /\ pc = "page"
    /\ exc = "none"
    /\ budget = FetchMaxAnomalies
    /\ last = NoExchange
    /\ session_token = "initial"
    /\ bearer = "access"
    /\ reference_number = TRUE
    /\ poll_i = 0
    /\ attempt = 1
    /\ nredeem = 1
    /\ redeem_retryable = FALSE
    /\ sheet_exists = TRUE
    /\ sheet = ClearedSheet
    /\ progress = NoCheckpoint
    /\ RunIdle

SpecFetch == InitFetch /\ [][NextFetch]_vars

\* a report an earlier sync wrote and a list of raw records to sync twice
InitMerge ==
    /\ pc = "merge1"
    /\ exc = "none"
    /\ budget = 0
    /\ last = NoExchange
    /\ ClientInit
    /\ FetchIdle
    /\ \E S \in SUBSET (1..Len(EarlierRows)) :
          sheet = SyncOutput(ClearedSheet,
                             SelectSeq(EarlierRows, LAMBDA r : \E k \in S : EarlierRows[k] = r))
    /\ sheet_exists = TRUE
    /\ groups_metadata = GroupsMetadata(ExistingFullRows(sheet))
    /\ progress = NoCheckpoint
    /\ mode = "C"
    /\ should_resume = FALSE
    /\ existing_ids = {}
    /\ invoices \in RawLists
    /\ new_rows = <<>>
    /\ skipped_count = 0
    /\ current_pointer = Naive(Today)
    /\ start_date = absolute_start
    /\ chunk_start = 0
    /\ empty_chunk_streak = 0
    /\ walk_invoices = <<>>
    /\ end_date = Naive(Today)
    /\ edits = 0
    /\ pre_sheet = sheet
    /\ pre_progress = NoCheckpoint
    /\ walk_failed = FALSE
    /\ last_ok_lo = NoCheckpoint
    /\ ck_ids = {}
    /\ write_failed = FALSE
    /\ writes = <<>>
    /\ procs = NoProcs
    /\ last_checkpoint = NoCheckpoint
    /\ store_ops = <<>>
    /\ resp_json = <<>>
    /\ current_batch = <<>>

SpecMerge == InitMerge /\ [][NextMerge]_vars

\* a walk about to start, in mode A or B, from a naive end date or from one a
\* checkpoint was parsed to
InitWalk ==
    /\ pc = "walk"
    /\ exc = "none"
    /\ budget = WalkMaxAnomalies
    /\ last = NoExchange
    /\ session_token = "initial"
    /\ bearer = "access"
    /\ reference_number = TRUE
    /\ poll_i = 0
    /\ attempt = 1
    /\ nredeem = 1
    /\ redeem_retryable = FALSE
    /\ FetchIdle
    /\ sheet_exists = TRUE
    /\ sheet = ClearedSheet
    /\ progress = NoCheckpoint
    /\ mode \in {"A", "B"}
    /\ should_resume = FALSE
    /\ existing_ids = {}
    /\ invoices = <<>>
    /\ new_rows = <<>>
    /\ skipped_count = 0
    /\ start_date \in WalkStarts
    /\ \E t \in 0..MaxWalkEnd, aw \in BOOLEAN :
          /\ t >= start_date
          /\ end_date = [t |-> t, aware |-> aw]
          /\ current_pointer = end_date
    /\ chunk_start = 0
    /\ empty_chunk_streak = 0
    /\ walk_invoices = <<>>
    /\ edits = 0
    /\ pre_sheet = sheet
    /\ pre_progress = NoCheckpoint
    /\ walk_failed = FALSE
    /\ last_ok_lo = NoCheckpoint
    /\ ck_ids = {}
    /\ write_failed = FALSE
    /\ writes = <<>>
    /\ procs = NoProcs
    /\ last_checkpoint = NoCheckpoint
    /\ store_ops = <<>>
    /\ resp_json = <<>>
    /\ current_batch = <<>>
    /\ groups_metadata = <<>>

SpecWalk == InitWalk /\ [][NextWalk]_vars

\* two processes of main about to start on a report an earlier sync left
InitConc ==
    /\ pc = "idle"
    /\ exc = "none"
    /\ budget = 0
    /\ last = NoExchange
    /\ ClientInit
    /\ FetchIdle
    /\ sheet \in ConcReports
    /\ sheet_exists = TRUE
    /\ groups_metadata = GroupsMetadata(ExistingFullRows(sheet))
    /\ progress = NoCheckpoint
    /\ mode = "none"
    /\ should_resume = FALSE
    /\ existing_ids = {}
    /\ invoices = <<>>
    /\ new_rows = <<>>
    /\ skipped_count = 0
    /\ current_pointer = Naive(Today)
    /\ start_date = absolute_start
    /\ chunk_start = 0
    /\ empty_chunk_streak = 0
    /\ walk_invoices = <<>>
    /\ end_date = Naive(Today)
    /\ edits = 0
    /\ pre_sheet = sheet
    /\ pre_progress = NoCheckpoint
    /\ walk_failed = FALSE
    /\ last_ok_lo = NoCheckpoint
    /\ ck_ids = {}
    /\ write_failed = FALSE
    /\ writes = <<>>
    /\ procs = NoProcs
    /\ last_checkpoint = NoCheckpoint
    /\ store_ops = <<>>
    /\ resp_json = <<>>
    /\ current_batch = <<>>

SpecConc == InitConc /\ [][NextConc]_vars

\* no checkpoint file yet, no operation applied
InitStore ==
    /\ pc = "store"
    /\ exc = "none"
    /\ budget = 0
    /\ last = NoExchange
    /\ ClientInit
    /\ FetchIdle
    /\ sheet_exists = TRUE
    /\ sheet = ClearedSheet
    /\ progress = NoCheckpoint
    /\ RunIdle

SpecStore == InitStore /\ [][NextStore]_vars

\* an answer has been parsed and is about to be searched for the record list
InitExtract ==
    /\ pc = "extract"
    /\ exc = "none"
    /\ budget = 0
    /\ last = Exchange("query", 200, 0)
    /\ session_token = "initial"
    /\ bearer = "access"
    /\ reference_number = TRUE
    /\ poll_i = 0
    /\ attempt = 1
    /\ nredeem = 1
    /\ redeem_retryable = FALSE
    /\ served = <<>>
    /\ page_size = MaxPageSize
    /\ page_offset = 0
    /\ retry_auth = FALSE
    /\ all_invoices = <<>>
    /\ ret = "extract"
    /\ offs = <<0>>
    /\ slept = 0
    /\ sheet_exists = TRUE
    /\ sheet = ClearedSheet
    /\ progress = NoCheckpoint
    /\ mode = "none"
    /\ should_resume = FALSE
    /\ existing_ids = {}
    /\ invoices = <<>>
    /\ new_rows = <<>>
    /\ skipped_count = 0
    /\ current_pointer = Naive(Today)
    /\ start_date = absolute_start
    /\ chunk_start = 0
    /\ empty_chunk_streak = 0
    /\ walk_invoices = <<>>
    /\ end_date = Naive(Today)
    /\ edits = 0
    /\ pre_sheet = ClearedSheet
    /\ pre_progress = NoCheckpoint
    /\ walk_failed = FALSE
    /\ last_ok_lo = NoCheckpoint
    /\ ck_ids = {}
    /\ write_failed = FALSE
    /\ writes = <<>>
    /\ procs = NoProcs
    /\ last_checkpoint = NoCheckpoint
    /\ store_ops = <<>>
    /\ resp_json \in Responses
    /\ current_batch = <<>>
    /\ groups_metadata = <<>>

SpecExtract == InitExtract /\ [][NextExtract]_vars

====
